---- MODULE Spec2Model ----
(***************************************************************************)
(* A model of the message routing core of codeforthevoid:                  *)
(*   - MessagingService     (src/src/services/messaging_service.py)        *)
(*   - ConnectionManager    (src/src/api/websocket.py)                     *)
(*   - ConversationService rate limiter                                    *)
(*                          (src/src/services/conversation_service.py)     *)
(* The three components share no state in the source, so each has its own  *)
(* variables, its own next-state relation and its own specification        *)
(* (the SpecMS*, SpecCM* and SpecRL* views); Spec is their interleaving.    *)
(*                                                                         *)
(* asyncio is cooperative: the code between two awaits that really suspend *)
(* runs atomically, so one action is one such stretch of a coroutine.      *)
(***************************************************************************)
EXTENDS Integers, Sequences, FiniteSets, TLC

\* ------------------------------------------------------------------ bounds
\* Envelope ids the model can allocate (uuid4 in the source): one more than a
\* sender may have accepted in a rate limit window.
MaxIds == 101
\* Largest value of the MessagingService clock.
MaxTime == 60
\* The custom queue_size a caller of register_terminal may pass.
SmallQueue == 1
\* Envelopes allocated in the queue, the life-cycle, the re-registration and
\* the timed view.
QueueViewIds == 4
\* Messages in a terminal's history beyond which callers make no call.
MaxHistory == 4
\* Conversation ids the terminals draw.
MaxUuids == 2
\* Conversations a ConversationManager creates, and its clock in minutes.
MaxConvs == 2
MaxCvTime == 60
\* Envelopes allocated in the expiry view.
ExpireIds == 2
\* Envelopes allocated in the batch view.
BatchIds == 5
LifeIds == 3
FifoIds == 3
TimedIds == 3
\* WebSocket handles the ConnectionManager model can allocate, messages its
\* callers send in the views, and in the buffer view.
MaxWs == 3
MaxMsgs == 3
MaxBuffered == 1002
\* Broadcasts made in the broadcast view.
MaxCasts == 2
\* Largest retry_count a failing connect may still raise.
MaxRetryCount == 5
\* Largest value of the ConnectionManager clock.
MaxCmTime == 122
\* add_message calls made on one sender, how many of them may fail in storage,
\* how many may be suspended at once, and the largest rate limiter clock.
MaxCalls == 101
MaxFailures == 1
MaxInflight == 2
MaxRlTime == 60

\* ------------------------------------------------------- program constants
QUEUE_SIZE == 1000
MESSAGE_TIMEOUT == 30
MAX_RETRY_ATTEMPTS == 3
BATCH_SIZE == 50
\* AITerminal and TerminalStatus
MAX_HISTORY_SIZE == 1000
AT_MAX_RETRIES == 3
T_IDLE == "idle"
T_ACTIVE == "active"
T_ERROR == "error"
\* ConversationManager.config and ConversationStatus
MAX_CONVERSATIONS == 1000
MESSAGE_LIMIT == 1000
IDLE_TIMEOUT == 30
CONV_ACTIVE == "active"
CONV_ENDED == "ended"
HIGH == 0
NORMAL == 1
LOW == 2
\* the default None of send_message's timeout argument
NoTimeout == -1

HEARTBEAT_INTERVAL == 30
CM_MAX_RETRY_ATTEMPTS == 3
RECONNECT_TIMEOUT == 60
BUFFER_LIMIT == 1000
RATE_LIMIT_WINDOW == 60
MAX_MESSAGES_PER_WINDOW == 100

PENDING == "pending"
DELIVERED == "delivered"
FAILED == "failed"
EXPIRED == "expired"

\* ------------------------------------------------------------ input sets
Terminals == {"t1", "t2"}
\* AITerminal objects a caller may hand to register_terminal.
TerminalObjs == {"objA", "objB"}
Senders == {"s1"}
Contents == {"m"}
Priorities == {HIGH, NORMAL, LOW}
\* queue_size argument: 0 stands for None (and for 0: both are falsy).
QueueSizeArgs == {0, SmallQueue}
\* timeout argument of send_message.
TimeoutArgs == {NoTimeout, 0}
Ids == 1..MaxIds
\* The clock moves in steps of these sizes.
TickSteps == {MESSAGE_TIMEOUT}
\* The terminal the single-recipient views register and send to.
Recipient == "t1"

VARIABLES
    \* MessagingService
    terminals,           \* self.terminals: terminal id -> AITerminal object
    message_queues,      \* self.message_queues: terminal id -> Queue
    processing_tasks,    \* self.processing_tasks: terminal id -> worker task
    message_states,      \* self.message_states: envelope id -> tracking record
    active_connections,  \* self.active_connections
    messages,            \* the Message objects created so far, by id
    putters,             \* send_message calls suspended in queue.put
    next_id,             \* next envelope id to allocate
    arrival,             \* history: envelope id -> rank of its completed put
    ms_now,              \* datetime.utcnow()
    ms_swept,            \* history: time of the last expiry sweep (-1: none)
    ms_ret,              \* outcome of the last completed public call
    ms_tasks,            \* self.cleanup_task and self.monitor_task:
                         \* "running" or "cancelled"
    \* ConnectionManager
    cm_active_connections, \* self.active_connections: id -> ConnectionInfo
    terminal_pairs,      \* self.terminal_pairs: pair id -> set of terminal ids
    message_buffer,      \* self.message_buffer: id -> list of messages
    ws_closed,           \* WebSocket handles whose client_state is DISCONNECTED
    close_sent,          \* history: the handles on which a close call has returned
    close_log,           \* history: the close calls of the last step, each with
                         \* its handle and whether close had returned on it before
    heartbeat_tasks,     \* id -> number of live _connection_heartbeat tasks
    next_ws,             \* next WebSocket handle a caller connects with
    next_msg,            \* next message a caller sends
    wire,                \* history: id -> messages written with send_json
    cm_now,              \* datetime.now()
    cm_ret,              \* outcome of the last completed public call
    cm_tasks,            \* self.heartbeat_task and self.cleanup_task:
                         \* "running" or "cancelled"
    \* ConversationService rate limiter
    rate_limits,         \* self.rate_limits: sender id -> list of timestamps
    rl_inflight,         \* sender id -> add_message calls between check and record
    rl_calls,            \* history: sender id -> add_message calls made
    rl_rejected,         \* history: sender id -> calls ended by the rate limit
    rl_failed,           \* history: sender id -> calls ended by another error
    rl_now,              \* datetime.utcnow()
    rl_ret,              \* outcome of the last completed add_message
    \* ConversationManager
    cv_active_conversations, \* self.active_conversations: id -> Conversation
    conversation_pairs,  \* self.conversation_pairs: id -> (terminal1, terminal2)
    terminal_conversations, \* self.terminal_conversations: terminal -> set of ids
    cv_next,             \* number of the next conversation id generated
    cv_now,              \* datetime.now(), in minutes
    cv_ret,              \* outcome of the last completed public call
    \* AITerminal objects and the TerminalRegistry
    at_status,           \* terminal -> self.status
    current_conversation_id, \* terminal -> self.current_conversation_id
    at_active_conversations, \* terminal -> self.active_conversations
    conversation_history, \* terminal -> len(self.conversation_history)
    registry,            \* ids in TerminalRegistry._terminals
    at_pending,          \* terminal -> the receive_message call suspended in
                         \* generate_response, or NoPending
    at_next_conv,        \* number of the next uuid4 a start_conversation draws
    at_gen,              \* history: how the generation ended in the last step
    at_ret               \* outcome of the last completed public call

msVars == <<terminals, message_queues, processing_tasks, message_states,
            active_connections, messages, putters, next_id, arrival,
            ms_now, ms_swept, ms_ret, ms_tasks>>

cmVars == <<cm_active_connections, terminal_pairs, message_buffer, ws_closed,
            close_sent, close_log, heartbeat_tasks, next_ws, next_msg, wire, cm_now,
            cm_ret, cm_tasks>>

rlVars == <<rate_limits, rl_inflight, rl_calls, rl_rejected, rl_failed, rl_now,
            rl_ret>>

cvVars == <<cv_active_conversations, conversation_pairs,
            terminal_conversations, cv_next, cv_now, cv_ret>>

atVars == <<at_status, current_conversation_id, at_active_conversations,
            conversation_history, registry, at_pending, at_next_conv, at_gen,
            at_ret>>

aiVars == <<cvVars, atVars>>

vars == <<msVars, cmVars, rlVars, aiVars>>

\* ----------------------------------------------------------------- helpers
NoCall == [op |-> "none", arg |-> "none", err |-> "none"]
Ret(op, arg, err) == [op |-> op, arg |-> arg, err |-> err]

\* A function with key k removed / added.
Without(f, k) == [x \in DOMAIN f \ {k} |-> f[x]]
With(f, k, v) == [x \in DOMAIN f \cup {k} |-> IF x = k THEN v ELSE f[x]]

Min(a, b) == IF a < b THEN a ELSE b

\* asyncio.Queue(maxsize): a FIFO of envelope ids.
NewQueue(maxsize) == [maxsize |-> maxsize, items |-> <<>>]
QueueFull(q) == Len(q.items) >= q.maxsize
QueuePutFront(q, id) == [q EXCEPT !.items = <<id>> \o @]
QueuePut(q, id) == [q EXCEPT !.items = Append(@, id)]

\* A freshly created _process_messages task: about to poll its queue.
NewWorker == [pc |-> "poll", batch |-> <<>>, idx |-> 0, newid |-> 0]

\* Calling a method the class does not define raises AttributeError.
UndefinedMethod == "AttributeError"

CONNECTED == "connected"
DISCONNECTED == "disconnected"
ERROR == "error"
RECONNECTING == "reconnecting"

\* The ConnectionManager clock moves in steps of these sizes.
CmTickSteps == {2 * HEARTBEAT_INTERVAL + 1}
\* What a transport call (accept, send_json) may do.
TransportOutcomes == {"ok", "WebSocketDisconnect", "Exception"}
\* What websocket.close may do.
CloseOutcomes == {"ok", "Exception"}

\* -------------------------------------------------------------------- Init
InitMS ==
    /\ terminals = <<>>
    /\ message_queues = <<>>
    /\ processing_tasks = <<>>
    /\ message_states = <<>>
    /\ active_connections = {}
    /\ messages = <<>>
    /\ putters = {}
    /\ next_id = 1
    /\ arrival = [i \in Ids |-> 0]
    /\ ms_now = 0
    /\ ms_swept = -1
    /\ ms_ret = NoCall
    /\ ms_tasks = "running"

\* ------------------------------------------------------- register_terminal
\* queue_size or self.QUEUE_SIZE
EffectiveQueueSize(queue_size) == IF queue_size = 0 THEN QUEUE_SIZE ELSE queue_size

AlreadyRegisteredNever(t) == FALSE

\* if terminal.terminal_id in self.terminals
AlreadyRegistered(t) == t \in DOMAIN terminals

RegisterTerminal(t, obj, queue_size) ==
    /\ IF AlreadyRegistered(t)
       THEN \* raise MessagingError("Terminal already registered")
            /\ ms_ret' = Ret("register", t, "MessagingError")
            /\ UNCHANGED <<terminals, message_queues, processing_tasks,
                           active_connections>>
       ELSE /\ terminals' = With(terminals, t, obj)
            /\ message_queues' =
                   With(message_queues, t, NewQueue(EffectiveQueueSize(queue_size)))
            /\ active_connections' = active_connections \cup {t}
            /\ processing_tasks' = With(processing_tasks, t, NewWorker)
            /\ ms_ret' = Ret("register", t, "ok")
    /\ UNCHANGED <<message_states, messages, putters, next_id, arrival, ms_now,
                   ms_swept>>
    /\ UNCHANGED <<ms_tasks, cmVars, rlVars, aiVars>>

\* ----------------------------------------------------- unregister_terminal
\* The cleanup loop of unregister_terminal: the first queued message is taken
\* with get_nowait and handed to _handle_undelivered_message, which the class
\* does not define, so the call raises and the loop ends there.
DrainOnUnregister(q) ==
    IF Len(q.items) = 0
    THEN [queue |-> q, err |-> "ok"]
    ELSE [queue |-> [q EXCEPT !.items = Tail(@)], err |-> UndefinedMethod]

UnregisterTerminal(t, cleanup) ==
    /\ IF t \notin DOMAIN terminals
       THEN /\ ms_ret' = Ret("unregister", t, "ok")
            /\ UNCHANGED <<terminals, message_queues, processing_tasks,
                           active_connections, putters>>
       ELSE LET d == IF cleanup THEN DrainOnUnregister(message_queues[t])
                     ELSE [queue |-> message_queues[t], err |-> "ok"]
            IN /\ processing_tasks' = Without(processing_tasks, t)
               /\ active_connections' = active_connections \ {t}
               /\ IF d.err = "ok"
                  THEN /\ terminals' = Without(terminals, t)
                       /\ message_queues' = Without(message_queues, t)
                       \* a put still suspended on the dropped Queue object
                       \* completes there, out of anyone's sight
                       /\ putters' = {i \in putters : messages[i].recipient_id # t}
                       /\ ms_ret' = Ret("unregister", t, "ok")
                  ELSE /\ message_queues' = [message_queues EXCEPT ![t] = d.queue]
                       /\ ms_ret' = Ret("unregister", t, "MessagingError")
                       /\ UNCHANGED <<terminals, putters>>
    /\ UNCHANGED <<message_states, messages, next_id, arrival, ms_now, ms_swept>>
    /\ UNCHANGED <<ms_tasks, cmVars, rlVars, aiVars>>

\* ------------------------------------------------------------ send_message
\* timeout or self.MESSAGE_TIMEOUT  (None and 0 are both falsy)
EffectiveTimeout(timeout) ==
    IF timeout = NoTimeout \/ timeout = 0 THEN MESSAGE_TIMEOUT ELSE timeout

NewState(timeout) ==
    [state |-> PENDING, attempts |-> 0, created_at |-> ms_now,
     timeout |-> EffectiveTimeout(timeout)]

\* root and timeout_arg are history fields: the envelope this one is a re-offer
\* of (itself for a caller's send) and the timeout argument of the call.
NewMessage(id, sender, recipient, content, priority, root, timeout) ==
    [id |-> id, content |-> content, sender_id |-> sender,
     recipient_id |-> recipient, priority |-> priority,
     root |-> root, timeout_arg |-> timeout]

Arrived == Cardinality({i \in Ids : arrival[i] > 0})

RecipientConnectedAlways(recipient) == TRUE

\* recipient_id in self.active_connections
RecipientConnected(recipient) == recipient \in active_connections

\* send_message up to its await on queue.put
SendMessage(sender, recipient, content, priority, timeout) ==
    /\ IF ~RecipientConnected(recipient)
       THEN \* raise MessagingError("Recipient terminal not connected")
            /\ ms_ret' = Ret("send", recipient, "MessagingError")
            /\ UNCHANGED <<message_states, messages, putters, next_id>>
       ELSE /\ next_id <= MaxIds
            /\ message_states' = With(message_states, next_id, NewState(timeout))
            /\ messages' = With(messages, next_id,
                   NewMessage(next_id, sender, recipient, content, priority,
                              next_id, timeout))
            /\ next_id' = next_id + 1
            /\ IF recipient \in DOMAIN message_queues
               THEN /\ putters' = putters \cup {next_id}
                    /\ UNCHANGED ms_ret
               ELSE \* self.message_queues[recipient_id] raises KeyError
                    /\ ms_ret' = Ret("send", recipient, "MessagingError")
                    /\ UNCHANGED putters
    /\ UNCHANGED <<terminals, message_queues, processing_tasks,
                   active_connections, arrival, ms_now, ms_swept>>
    /\ UNCHANGED <<ms_tasks, cmVars, rlVars, aiVars>>

\* queue.put(message) completes: the queue has room
PutComplete(id) ==
    /\ id \in putters
    /\ LET r == messages[id].recipient_id
       IN /\ ~QueueFull(message_queues[r])
          /\ message_queues' = [message_queues EXCEPT ![r] = QueuePut(@, id)]
          /\ ms_ret' = Ret("send", r, "ok")
    /\ arrival' = [arrival EXCEPT ![id] = Arrived + 1]
    /\ putters' = putters \ {id}
    /\ UNCHANGED <<terminals, processing_tasks, message_states,
                   active_connections, messages, next_id, ms_now, ms_swept>>
    /\ UNCHANGED <<ms_tasks, cmVars, rlVars, aiVars>>

\* The queue stayed full for 1s: wait_for raises TimeoutError, the handler
\* calls the undefined _handle_queue_timeout and the outer except turns the
\* AttributeError into MessagingError.  The tracking record stays.
PutTimeout(id) ==
    /\ id \in putters
    /\ QueueFull(message_queues[messages[id].recipient_id])
    /\ putters' = putters \ {id}
    /\ ms_ret' = Ret("send", messages[id].recipient_id, "MessagingError")
    /\ UNCHANGED <<terminals, message_queues, processing_tasks, message_states,
                   active_connections, messages, next_id, arrival, ms_now,
                   ms_swept>>
    /\ UNCHANGED <<ms_tasks, cmVars, rlVars, aiVars>>

\* ------------------------------------------------------------ get_messages
\* One iteration of the generator: queue.get() returned a message.
GetMessages(t) ==
    /\ IF t \notin DOMAIN message_queues
       THEN /\ ms_ret' = Ret("get", t, "MessagingError")
            /\ UNCHANGED <<message_queues, message_states>>
       ELSE /\ t \in active_connections
            /\ Len(message_queues[t].items) > 0
            /\ LET id == Head(message_queues[t].items)
               IN /\ message_queues' = [message_queues EXCEPT ![t].items = Tail(@)]
                  /\ message_states' =
                       IF id \in DOMAIN message_states
                       THEN [message_states EXCEPT ![id].state = DELIVERED]
                       ELSE message_states
            /\ ms_ret' = Ret("get", t, "ok")
    /\ UNCHANGED <<terminals, processing_tasks, active_connections, messages,
                   putters, next_id, arrival, ms_now, ms_swept>>
    /\ UNCHANGED <<ms_tasks, cmVars, rlVars, aiVars>>

IsMessageExpiredNever(state) == FALSE

\* ---------------------------------------------------------------- expiry
IsMessageExpired(state) == (ms_now - state.created_at) > state.timeout

\* One pass of _cleanup_expired_messages over message_states; the task runs
\* until cleanup() cancels it.
CleanupExpiredMessages ==
    /\ ms_tasks = "running"
    /\ message_states' =
          [id \in DOMAIN message_states |->
              IF IsMessageExpired(message_states[id])
              THEN [message_states[id] EXCEPT !.state = EXPIRED]
              ELSE message_states[id]]
    /\ ms_swept' = ms_now
    /\ UNCHANGED <<terminals, message_queues, processing_tasks,
                   active_connections, messages, putters, next_id, arrival,
                   ms_now, ms_ret>>
    /\ UNCHANGED <<ms_tasks, cmVars, rlVars, aiVars>>

\* ------------------------------------------------------ _process_messages
\* What processing one drained message does before _handle_failed_message:
\* _handle_expired_message, _process_high_priority_message and
\* _process_normal_message are all called and none is defined, so every
\* branch raises inside the try of _process_message_batch.
ProcessOutcome(msg, state) ==
    IF IsMessageExpired(state) THEN UndefinedMethod
    ELSE IF msg.priority = HIGH THEN UndefinedMethod
    ELSE UndefinedMethod

FailedAttemptOverrun(state) ==
    [state EXCEPT !.attempts = @ + MAX_RETRY_ATTEMPTS + 1]

\* _handle_failed_message up to its await: the record after attempts += 1
FailedAttempt(state) ==
    LET a == state.attempts + 1
    IN [state EXCEPT !.attempts = a,
                     !.state = IF a >= MAX_RETRY_ATTEMPTS THEN FAILED ELSE @]

\* _process_message_batch from message i on, up to the next await that
\* suspends (the backoff sleep) or the end of the batch.
RECURSIVE RunBatch(_, _, _)
RunBatch(st, batch, i) ==
    IF i > Len(batch)
    THEN [st |-> st, idx |-> 0, pc |-> "poll"]
    ELSE LET id == batch[i]
         IN IF id \notin DOMAIN st
            THEN RunBatch(st, batch, i + 1)
            ELSE IF ProcessOutcome(messages[id], st[id]) = "ok"
            THEN RunBatch(st, batch, i + 1)
            ELSE LET st1 == [st EXCEPT ![id] = FailedAttempt(@)]
                 IN IF st1[id].attempts >= MAX_RETRY_ATTEMPTS
                    THEN RunBatch(st1, batch, i + 1)
                    ELSE [st |-> st1, idx |-> i, pc |-> "backoff"]

\* queue.get_nowait() until BATCH_SIZE messages or the queue is empty
CollectBatch(q) ==
    LET n == Min(BATCH_SIZE, Len(q.items))
    IN [batch |-> SubSeq(q.items, 1, n),
        queue |-> [q EXCEPT !.items = SubSeq(@, n + 1, Len(@))]]

\* The worker of t wakes, drains a batch and processes it up to its first
\* suspension.
WorkerCollect(t) ==
    /\ t \in DOMAIN processing_tasks
    /\ processing_tasks[t].pc = "poll"
    /\ t \in active_connections
    /\ Len(message_queues[t].items) > 0
    /\ LET c == CollectBatch(message_queues[t])
           r == RunBatch(message_states, c.batch, 1)
       IN /\ message_queues' = [message_queues EXCEPT ![t] = c.queue]
          /\ message_states' = r.st
          /\ processing_tasks' = [processing_tasks EXCEPT ![t] =
                 [pc |-> r.pc, idx |-> r.idx, newid |-> 0,
                  batch |-> IF r.pc = "poll" THEN <<>> ELSE c.batch]]
    /\ UNCHANGED <<terminals, active_connections, messages, putters, next_id,
                   arrival, ms_now, ms_swept, ms_ret>>
    /\ UNCHANGED <<ms_tasks, cmVars, rlVars, aiVars>>

\* The envelope a worker in its backoff sleep is handling.
BackoffEnvelope(w) == w.batch[w.idx]

\* asyncio.sleep(2 ** state["attempts"]): the seconds the worker w sleeps
\* before it sends the message again; state is the tracking record of the
\* envelope being handled.
BackoffDelay(w) == 2 ^ message_states[BackoffEnvelope(w)].attempts

\* The backoff sleep of _handle_failed_message is over: the message is sent
\* again through send_message, which allocates a new envelope (new id, new
\* tracking record, default timeout) and suspends in queue.put.
WorkerResend(t) ==
    /\ t \in DOMAIN processing_tasks
    /\ processing_tasks[t].pc = "backoff"
    /\ LET w == processing_tasks[t]
           m == messages[w.batch[w.idx]]
       IN IF ~RecipientConnected(m.recipient_id)
          THEN \* send_message raises; the error leaves the batch and is caught
               \* by _process_messages, which sleeps and polls again
               /\ processing_tasks' = [processing_tasks EXCEPT ![t] = NewWorker]
               /\ UNCHANGED <<message_states, messages, next_id>>
          ELSE /\ next_id <= MaxIds
               /\ message_states' =
                     With(message_states, next_id, NewState(NoTimeout))
               /\ messages' = With(messages, next_id,
                     NewMessage(next_id, m.sender_id, m.recipient_id, m.content,
                                m.priority, m.root, NoTimeout))
               /\ next_id' = next_id + 1
               /\ processing_tasks' = [processing_tasks EXCEPT ![t] =
                     [w EXCEPT !.pc = "put", !.newid = next_id]]
    /\ UNCHANGED <<terminals, message_queues, active_connections, putters,
                   arrival, ms_now, ms_swept, ms_ret>>
    /\ UNCHANGED <<ms_tasks, cmVars, rlVars, aiVars>>

\* The worker's put completes; the batch goes on with the next message.
WorkerPutComplete(t) ==
    /\ t \in DOMAIN processing_tasks
    /\ processing_tasks[t].pc = "put"
    /\ ~QueueFull(message_queues[t])
    /\ LET w == processing_tasks[t]
           r == RunBatch(message_states, w.batch, w.idx + 1)
       IN /\ message_queues' = [message_queues EXCEPT ![t] = QueuePut(@, w.newid)]
          /\ arrival' = [arrival EXCEPT ![w.newid] = Arrived + 1]
          /\ message_states' = r.st
          /\ processing_tasks' = [processing_tasks EXCEPT ![t] =
                 [pc |-> r.pc, idx |-> r.idx, newid |-> 0,
                  batch |-> IF r.pc = "poll" THEN <<>> ELSE w.batch]]
    /\ UNCHANGED <<terminals, active_connections, messages, putters, next_id,
                   ms_now, ms_swept, ms_ret>>
    /\ UNCHANGED <<ms_tasks, cmVars, rlVars, aiVars>>

\* The worker's put times out on a full queue: send_message raises
\* MessagingError out of the except clause of _process_message_batch, the
\* rest of the batch is dropped and _process_messages polls again.
WorkerPutTimeout(t) ==
    /\ t \in DOMAIN processing_tasks
    /\ processing_tasks[t].pc = "put"
    /\ QueueFull(message_queues[t])
    /\ processing_tasks' = [processing_tasks EXCEPT ![t] = NewWorker]
    /\ UNCHANGED <<terminals, message_queues, message_states,
                   active_connections, messages, putters, next_id, arrival,
                   ms_now, ms_swept, ms_ret>>
    /\ UNCHANGED <<ms_tasks, cmVars, rlVars, aiVars>>

\* A step of the clock is far longer than the second queue.put may wait, so
\* no put is pending when the clock moves.  The worker's sleeps are not
\* timed: a worker may be arbitrarily slow.
TickMS ==
    /\ putters = {}
    /\ \A t \in DOMAIN processing_tasks : processing_tasks[t].pc # "put"
    /\ \E d \in TickSteps :
          /\ ms_now + d <= MaxTime
          /\ ms_now' = ms_now + d
    /\ UNCHANGED <<terminals, message_queues, processing_tasks, message_states,
                   active_connections, messages, putters, next_id, arrival,
                   ms_swept, ms_ret>>
    /\ UNCHANGED <<ms_tasks, cmVars, rlVars, aiVars>>

\* ----------------------------------------------------------------- cleanup
\* The orders in which a loop may visit the members of S.  The model does not
\* record the insertion order of a dict, so a loop over one takes any order.
Orders(S) ==
    {o \in [1..Cardinality(S) -> S] :
        \A i, j \in 1..Cardinality(S) : o[i] = o[j] => i = j}

\* unregister_terminal(t) with the default cleanup=True, as cleanup() calls
\* it, on the registries r of a service that has not failed yet.
UnregisterIn(r, t) ==
    LET d == DrainOnUnregister(r.message_queues[t])
        base == [r EXCEPT !.processing_tasks = Without(@, t),
                          !.active_connections = @ \ {t}]
    IN IF d.err = "ok"
       THEN [base EXCEPT !.terminals = Without(@, t),
                         !.message_queues = Without(@, t),
                         !.putters = {i \in @ : messages[i].recipient_id # t}]
       ELSE [base EXCEPT !.message_queues[t] = d.queue,
                         !.err = "MessagingError"]

\* The loop of cleanup() over the terminals from position i of order o on:
\* the first unregister_terminal that raises ends it.
RECURSIVE UnregisterAll(_, _, _)
UnregisterAll(r, o, i) ==
    IF i > Len(o) \/ r.err # "ok"
    THEN r
    ELSE UnregisterAll(UnregisterIn(r, o[i]), o, i + 1)

\* cleanup(): cancel the two background tasks, unregister every terminal,
\* then clear message_states and active_connections.  An exception is logged
\* and raised again, and the two clear() calls are not reached.
CleanupMS ==
    /\ ms_tasks' = "cancelled"
    /\ \E o \in Orders(DOMAIN terminals) :
          LET r0 == [terminals |-> terminals, message_queues |-> message_queues,
                     processing_tasks |-> processing_tasks,
                     active_connections |-> active_connections,
                     putters |-> putters, err |-> "ok"]
              r == UnregisterAll(r0, o, 1)
          IN /\ terminals' = r.terminals
             /\ message_queues' = r.message_queues
             /\ processing_tasks' = r.processing_tasks
             /\ putters' = r.putters
             /\ IF r.err = "ok"
                THEN /\ message_states' = <<>>
                     /\ active_connections' = {}
                ELSE /\ active_connections' = r.active_connections
                     /\ UNCHANGED message_states
             /\ ms_ret' = Ret("cleanup", "all", r.err)
    /\ UNCHANGED <<messages, next_id, arrival, ms_now, ms_swept>>
    /\ UNCHANGED <<cmVars, rlVars, aiVars>>

\* ======================================================= ConnectionManager
InitCM ==
    /\ cm_active_connections = <<>>
    /\ terminal_pairs = <<>>
    /\ message_buffer = <<>>
    /\ ws_closed = {}
    /\ close_sent = {}
    /\ close_log = {}
    /\ heartbeat_tasks = [t \in Terminals |-> 0]
    /\ next_ws = 1
    /\ next_msg = 1
    /\ wire = [t \in Terminals |-> <<>>]
    /\ cm_now = 0
    /\ cm_ret = NoCall
    /\ cm_tasks = "running"

\* ConnectionInfo(websocket, CONNECTED, now, now, retry_count=0)
NewConnectionInfo(ws) ==
    [websocket |-> ws, state |-> CONNECTED, last_heartbeat |-> cm_now,
     connection_time |-> cm_now, retry_count |-> 0]

\* disconnect and _handle_disconnect: the effect on one ConnectionInfo
Disconnected(c) == [c EXCEPT !.state = DISCONNECTED, !.last_heartbeat = cm_now]

\* disconnect calls websocket.close unless the handle's client_state is
\* DISCONNECTED.
CloseInvoked(c) == c.websocket \notin ws_closed

\* One close call on the handle of c.
CloseCall(c) == [ws |-> c.websocket, again |-> c.websocket \in close_sent]

\* The close calls of disconnect on one ConnectionInfo.
ClosedByDisconnect(c) == IF CloseInvoked(c) THEN {CloseCall(c)} ELSE {}

\* The handles on which the close of disconnect returns, when close ends
\* with co.
SentByDisconnect(c, co) ==
    IF CloseInvoked(c) /\ co = "ok" THEN {c.websocket} ELSE {}

\* disconnect: the effect on one ConnectionInfo when close ends with co.  An
\* exception of close leaves the try block before the state is assigned and
\* is only logged.
DisconnectInfo(c, co) ==
    IF CloseInvoked(c) /\ co # "ok" THEN c ELSE Disconnected(c)

\* disconnect gives the terminal an empty buffer if it has none, unless close
\* raised before.
DisconnectBuffer(buf, t, c, co) ==
    IF (CloseInvoked(c) /\ co # "ok") \/ t \in DOMAIN buf
    THEN buf ELSE With(buf, t, <<>>)

\* _handle_connection_error: the effect on one ConnectionInfo; co is what
\* close does if disconnect calls it.  ERROR is set first; it stays when
\* retry_count is over the maximum and close raises inside disconnect.
HandleConnectionError(c, co) ==
    LET r == c.retry_count + 1
    IN IF r > CM_MAX_RETRY_ATTEMPTS
       THEN DisconnectInfo([c EXCEPT !.retry_count = r, !.state = ERROR], co)
       ELSE [c EXCEPT !.retry_count = r, !.state = RECONNECTING]

\* Every terminal with a ConnectionInfo has a buffer (connect creates both,
\* _cleanup_terminal_data deletes both), so the disconnect that
\* _handle_connection_error calls never has a buffer to create.
ConnectionsHaveBuffers ==
    \A t \in DOMAIN cm_active_connections : t \in DOMAIN message_buffer

\* _handle_connection_error on c reaches the close of disconnect.
ErrorCloses(c) == c.retry_count + 1 > CM_MAX_RETRY_ATTEMPTS /\ CloseInvoked(c)

\* The close calls of _handle_connection_error on c.
ClosedByError(c) == IF ErrorCloses(c) THEN {CloseCall(c)} ELSE {}

\* The handles on which the close reached by _handle_connection_error returns.
SentByError(c, co) ==
    IF ErrorCloses(c) /\ co = "ok" THEN {c.websocket} ELSE {}

\* The handle of t's ConnectionInfo, if any.  A handle no ConnectionInfo
\* refers to is never read again and leaves ws_closed and close_sent.
HandleOf(conns, t) == IF t \in DOMAIN conns THEN {conns[t].websocket} ELSE {}

BufferMessageKeepOldest(buf, t, m) ==
    LET old == IF t \in DOMAIN buf THEN buf[t] ELSE <<>>
        new == Append(old, m)
    IN With(buf, t, IF Len(new) > BUFFER_LIMIT
                    THEN SubSeq(new, 1, BUFFER_LIMIT) ELSE new)

BufferMessageFront(buf, t, m) ==
    With(buf, t, <<m>> \o (IF t \in DOMAIN buf THEN buf[t] ELSE <<>>))

\* _buffer_message: append, then keep the last BUFFER_LIMIT entries
BufferMessage(buf, t, m) ==
    LET old == IF t \in DOMAIN buf THEN buf[t] ELSE <<>>
        new == Append(old, m)
        cut == IF Len(new) > BUFFER_LIMIT
               THEN SubSeq(new, Len(new) - BUFFER_LIMIT + 1, Len(new))
               ELSE new
    IN With(buf, t, cut)

\* _send_buffered_messages as connect calls it: connect has just set the
\* buffer of t to [], so the condition of its if is false and nothing is sent.
SendBufferedMessages(buf, t) ==
    IF t \in DOMAIN buf /\ buf[t] # <<>>
    THEN [flush |-> buf[t], buf |-> [buf EXCEPT ![t] = <<>>]]
    ELSE [flush |-> <<>>, buf |-> buf]

\* connect(terminal_id, websocket): accept, then install a new ConnectionInfo
\* and an empty buffer whatever was there, flush and start a heartbeat task.
\* A failing accept ends in _handle_connection_error.
\* The handle of a failed accept is stored nowhere and gets no number.
Connect(t, accept) ==
    /\ IF accept = "ok"
       THEN LET buf0 == With(message_buffer, t, <<>>)
                fl == SendBufferedMessages(buf0, t)
            IN /\ next_ws <= MaxWs
               /\ next_ws' = next_ws + 1
               /\ cm_active_connections' =
                     With(cm_active_connections, t, NewConnectionInfo(next_ws))
               /\ message_buffer' = fl.buf
               /\ wire' = [wire EXCEPT ![t] = @ \o fl.flush]
               /\ heartbeat_tasks' = [heartbeat_tasks EXCEPT ![t] = @ + 1]
               /\ ws_closed' = ws_closed \ HandleOf(cm_active_connections, t)
               /\ close_sent' = close_sent \ HandleOf(cm_active_connections, t)
               /\ close_log' = {}
       ELSE /\ IF t \in DOMAIN cm_active_connections
               THEN \E co \in CloseOutcomes :
                    /\ cm_active_connections[t].retry_count < MaxRetryCount
                    /\ cm_active_connections' = [cm_active_connections EXCEPT
                          ![t] = HandleConnectionError(@, co)]
                    /\ close_log' = ClosedByError(cm_active_connections[t])
                    /\ close_sent' = close_sent \cup
                          SentByError(cm_active_connections[t], co)
               ELSE /\ close_log' = {}
                    /\ UNCHANGED <<cm_active_connections, close_sent>>
            /\ UNCHANGED <<wire, heartbeat_tasks, message_buffer, next_ws,
                           ws_closed>>
    /\ cm_ret' = Ret("connect", t, "ok")
    /\ UNCHANGED <<next_msg, cm_now, terminal_pairs>>
    /\ UNCHANGED <<cm_tasks, msVars, rlVars, aiVars>>

\* disconnect(terminal_id): close the handle unless its client_state is
\* DISCONNECTED, then record the state and the time and make sure the
\* terminal has a buffer.  Every exception is caught and logged.
Disconnect(t) ==
    /\ IF t \in DOMAIN cm_active_connections
       THEN LET c == cm_active_connections[t]
            IN \E co \in CloseOutcomes :
               /\ close_log' = ClosedByDisconnect(c)
               /\ close_sent' = close_sent \cup SentByDisconnect(c, co)
               /\ cm_active_connections' =
                     [cm_active_connections EXCEPT ![t] = DisconnectInfo(c, co)]
               /\ message_buffer' = DisconnectBuffer(message_buffer, t, c, co)
       ELSE /\ close_log' = {}
            /\ UNCHANGED <<cm_active_connections, message_buffer, close_sent>>
    /\ cm_ret' = Ret("disconnect", t, "ok")
    /\ UNCHANGED <<ws_closed, heartbeat_tasks, next_ws,
                   next_msg, wire, cm_now, terminal_pairs>>
    /\ UNCHANGED <<cm_tasks, msVars, rlVars, aiVars>>

\* The transport reports client_state DISCONNECTED for a handle: the peer's
\* disconnect has been received.  websocket.close does not set it.
ClientDisconnected(ws) ==
    /\ \E t \in DOMAIN cm_active_connections :
          cm_active_connections[t].websocket = ws
    /\ ws \notin ws_closed
    /\ ws_closed' = ws_closed \cup {ws}
    /\ close_log' = {}
    /\ UNCHANGED <<cm_active_connections, terminal_pairs, message_buffer,
                   heartbeat_tasks, next_ws, next_msg, wire, cm_now, cm_ret,
                   close_sent>>
    /\ UNCHANGED <<cm_tasks, msVars, rlVars, aiVars>>

\* The two early returns of send_message: no ConnectionInfo, or one whose
\* state is not CONNECTED.
NotConnected(t) ==
    IF t \in DOMAIN cm_active_connections
    THEN cm_active_connections[t].state # CONNECTED
    ELSE TRUE

\* send_message(terminal_id, message, retry); out is what send_json does when
\* it is reached.
CmSendMessage(t, retry, out) ==
    /\ next_msg <= MaxBuffered
    /\ next_msg' = next_msg + 1
    /\ LET m == next_msg
           buffered == IF retry THEN BufferMessage(message_buffer, t, m)
                       ELSE message_buffer
       IN IF NotConnected(t)
          THEN /\ message_buffer' = buffered
               /\ cm_ret' = Ret("send", t, "False")
               /\ close_log' = {}
               /\ UNCHANGED <<cm_active_connections, wire, close_sent>>
          ELSE IF out = "ok"
          THEN /\ wire' = [wire EXCEPT ![t] = Append(@, m)]
               /\ cm_ret' = Ret("send", t, "True")
               /\ close_log' = {}
               /\ UNCHANGED <<cm_active_connections, message_buffer, close_sent>>
          ELSE IF out = "WebSocketDisconnect"
          THEN \* _handle_disconnect
               /\ cm_active_connections' =
                     [cm_active_connections EXCEPT ![t] = Disconnected(@)]
               /\ message_buffer' = buffered
               /\ cm_ret' = Ret("send", t, "False")
               /\ close_log' = {}
               /\ UNCHANGED <<wire, close_sent>>
          ELSE \E co \in CloseOutcomes :
               /\ cm_active_connections' = [cm_active_connections EXCEPT
                     ![t] = HandleConnectionError(@, co)]
               /\ close_log' = ClosedByError(cm_active_connections[t])
               /\ close_sent' = close_sent \cup
                     SentByError(cm_active_connections[t], co)
               /\ message_buffer' = buffered
               /\ cm_ret' = Ret("send", t, "False")
               /\ UNCHANGED wire
    /\ UNCHANGED <<ws_closed, heartbeat_tasks, next_ws, cm_now, terminal_pairs>>
    /\ UNCHANGED <<cm_tasks, msVars, rlVars, aiVars>>

BroadcastTargetsAll(conns, exclude) == DOMAIN conns

\* broadcast: the terminals a send_message coroutine is created for
BroadcastTargets(conns, exclude) == DOMAIN conns \ exclude

\* send_message(t, message, retry=False) as broadcast calls it: what it does
\* to the ConnectionInfo c when send_json ends with out and a close reached
\* through the error handler with co.  Nothing is buffered.
SendUnbuffered(c, out, co) ==
    IF c.state # CONNECTED \/ out = "ok" THEN c
    ELSE IF out = "WebSocketDisconnect" THEN Disconnected(c)
    ELSE HandleConnectionError(c, co)

\* The terminals whose send_json call made through broadcast completes.
Written(conns, targets, outs) ==
    {t \in targets : conns[t].state = CONNECTED /\ outs[t] = "ok"}

\* The terminals whose send_message call made through broadcast ends in
\* _handle_connection_error.
Errored(conns, targets, outs) ==
    {t \in targets : conns[t].state = CONNECTED /\ outs[t] = "Exception"}

\* broadcast(message, exclude): one send_message(t, message, retry=False) per
\* terminal of active_connections outside exclude, gathered with
\* return_exceptions=True.  outs[t] is what send_json does for t.  The sends
\* touch one ConnectionInfo each, so the order in which gather runs them
\* does not show.
Broadcast(exclude, outs) ==
    /\ next_msg <= MaxBuffered
    /\ next_msg' = next_msg + 1
    /\ \E co \in CloseOutcomes :
       LET targets == BroadcastTargets(cm_active_connections, exclude)
           errored == Errored(cm_active_connections, targets, outs)
       IN /\ cm_active_connections' =
                [t \in DOMAIN cm_active_connections |->
                    IF t \in targets
                    THEN SendUnbuffered(cm_active_connections[t], outs[t], co)
                    ELSE cm_active_connections[t]]
          /\ wire' = [t \in Terminals |->
                IF t \in Written(cm_active_connections, targets, outs)
                THEN Append(wire[t], next_msg) ELSE wire[t]]
          /\ close_log' =
                UNION {ClosedByError(cm_active_connections[t]) : t \in errored}
          /\ close_sent' = close_sent \cup
                UNION {SentByError(cm_active_connections[t], co) : t \in errored}
    /\ cm_ret' = Ret("broadcast", exclude, "ok")
    /\ UNCHANGED <<message_buffer, ws_closed, heartbeat_tasks, next_ws, cm_now,
                   terminal_pairs>>
    /\ UNCHANGED <<cm_tasks, msVars, rlVars, aiVars>>

\* One round of a _connection_heartbeat task of t on a CONNECTED connection:
\* the probe is written and last_heartbeat refreshed, or the write fails, the
\* error handler runs and the task ends.
ConnectionHeartbeat(t, out) ==
    /\ heartbeat_tasks[t] > 0
    /\ t \in DOMAIN cm_active_connections
    /\ cm_active_connections[t].state = CONNECTED
    /\ IF out = "ok"
       THEN /\ cm_active_connections' =
                  [cm_active_connections EXCEPT ![t].last_heartbeat = cm_now]
            /\ close_log' = {}
            /\ UNCHANGED <<heartbeat_tasks, close_sent>>
       ELSE \E co \in CloseOutcomes :
            /\ cm_active_connections' = [cm_active_connections EXCEPT
                  ![t] = HandleConnectionError(@, co)]
            /\ close_log' = ClosedByError(cm_active_connections[t])
            /\ close_sent' = close_sent \cup
                  SentByError(cm_active_connections[t], co)
            /\ heartbeat_tasks' = [heartbeat_tasks EXCEPT ![t] = @ - 1]
    /\ UNCHANGED <<message_buffer, ws_closed, next_ws, next_msg, wire, cm_now,
                   cm_ret, terminal_pairs>>
    /\ UNCHANGED <<cm_tasks, msVars, rlVars, aiVars>>

\* A _connection_heartbeat task finds its terminal gone and returns.
ConnectionHeartbeatExit(t) ==
    /\ heartbeat_tasks[t] > 0
    /\ t \notin DOMAIN cm_active_connections
    /\ heartbeat_tasks' = [heartbeat_tasks EXCEPT ![t] = @ - 1]
    /\ close_log' = {}
    /\ UNCHANGED <<cm_active_connections, message_buffer, ws_closed,
                   next_ws, next_msg, wire, cm_now, cm_ret, terminal_pairs,
                   close_sent>>
    /\ UNCHANGED <<cm_tasks, msVars, rlVars, aiVars>>

\* time_since_heartbeat > timedelta(seconds=HEARTBEAT_INTERVAL * 2)
HeartbeatStale(c) ==
    c.state = CONNECTED /\ cm_now - c.last_heartbeat > HEARTBEAT_INTERVAL * 2

\* One pass of _heartbeat_monitor over the connections; co is what close does
\* where _handle_connection_error reaches it.
HeartbeatMonitor ==
    /\ cm_tasks = "running"
    /\ \E t \in DOMAIN cm_active_connections :
          HeartbeatStale(cm_active_connections[t])
    /\ \E co \in CloseOutcomes :
       LET stale == {u \in DOMAIN cm_active_connections :
                        HeartbeatStale(cm_active_connections[u])}
       IN /\ cm_active_connections' =
                [t \in DOMAIN cm_active_connections |->
                    IF t \in stale
                    THEN HandleConnectionError(cm_active_connections[t], co)
                    ELSE cm_active_connections[t]]
          /\ close_log' =
                UNION {ClosedByError(cm_active_connections[u]) : u \in stale}
          /\ close_sent' = close_sent \cup
                UNION {SentByError(cm_active_connections[u], co) : u \in stale}
    /\ UNCHANGED <<message_buffer, ws_closed, heartbeat_tasks, next_ws,
                   next_msg, wire, cm_now, cm_ret, terminal_pairs>>
    /\ UNCHANGED <<cm_tasks, msVars, rlVars, aiVars>>

ReconnectExpiredAnyState(c) == cm_now - c.last_heartbeat > RECONNECT_TIMEOUT

ReconnectExpiredNever(c) == FALSE

\* time_since_disconnect > timedelta(seconds=RECONNECT_TIMEOUT)
ReconnectExpired(c) ==
    c.state = DISCONNECTED /\ cm_now - c.last_heartbeat > RECONNECT_TIMEOUT

\* The connections one pass of _cleanup_disconnected removes.
Expired(conns) == {t \in DOMAIN conns : ReconnectExpired(conns[t])}

\* _cleanup_terminal_data on terminal_pairs: the terminals leave every pair
\* and a pair left empty is dropped.
CleanupPairs(pairs, gone) ==
    [p \in {q \in DOMAIN pairs : pairs[q] \ gone # {}} |-> pairs[p] \ gone]

\* One pass of _cleanup_disconnected, with _cleanup_terminal_data.
CleanupDisconnected ==
    LET gone == Expired(cm_active_connections)
    IN /\ cm_tasks = "running"
       /\ gone # {}
       /\ cm_active_connections' =
             [t \in DOMAIN cm_active_connections \ gone |-> cm_active_connections[t]]
       /\ message_buffer' =
             [t \in DOMAIN message_buffer \ gone |-> message_buffer[t]]
       /\ terminal_pairs' = CleanupPairs(terminal_pairs, gone)
       /\ ws_closed' = ws_closed \
             UNION {HandleOf(cm_active_connections, t) : t \in gone}
       /\ close_sent' = close_sent \
             UNION {HandleOf(cm_active_connections, t) : t \in gone}
       /\ close_log' = {}
       /\ UNCHANGED <<heartbeat_tasks, next_ws, next_msg, wire, cm_now, cm_ret>>
       /\ UNCHANGED <<cm_tasks, msVars, rlVars, aiVars>>

\* datetime.now() moves on by d seconds.
TickCMBy(d) ==
    /\ cm_now + d <= MaxCmTime
    /\ cm_now' = cm_now + d
    /\ close_log' = {}
    /\ UNCHANGED <<cm_active_connections, terminal_pairs, message_buffer,
                   ws_closed, close_sent, heartbeat_tasks, next_ws, next_msg,
                   wire, cm_ret>>
    /\ UNCHANGED <<cm_tasks, msVars, rlVars, aiVars>>

TickCM == \E d \in CmTickSteps : TickCMBy(d)

\* cleanup(): cancel the two background tasks, disconnect every terminal
\* (gather collects what the disconnects raise, and they raise nothing), then
\* clear the three dicts.  co is what close does where disconnect calls it.
\* The _connection_heartbeat tasks are not cancelled: each ends when it next
\* finds its terminal gone.
CleanupCM ==
    /\ cm_tasks' = "cancelled"
    /\ close_log' = UNION {ClosedByDisconnect(cm_active_connections[t]) :
                              t \in DOMAIN cm_active_connections}
    /\ cm_active_connections' = <<>>
    /\ terminal_pairs' = <<>>
    /\ message_buffer' = <<>>
    /\ ws_closed' = {}
    /\ close_sent' = {}
    /\ cm_ret' = Ret("cleanup", "all", "ok")
    /\ UNCHANGED <<heartbeat_tasks, next_ws, next_msg, wire, cm_now>>
    /\ UNCHANGED <<msVars, rlVars, aiVars>>

NextCM ==
    \/ \E t \in Terminals, out \in {"ok", "Exception"} : Connect(t, out)
    \/ \E t \in Terminals : Disconnect(t)
    \/ \E ws \in 1..MaxWs : ClientDisconnected(ws)
    \/ \E t \in Terminals, retry \in BOOLEAN, out \in TransportOutcomes :
          next_msg <= MaxMsgs /\ CmSendMessage(t, retry, out)
    \/ \E t \in Terminals, out \in {"ok", "Exception"} : ConnectionHeartbeat(t, out)
    \/ \E t \in Terminals : ConnectionHeartbeatExit(t)
    \/ HeartbeatMonitor
    \/ CleanupDisconnected
    \/ TickCM
    \/ CleanupCM
    \/ \E exclude \in SUBSET Terminals, outs \in [Terminals -> TransportOutcomes] :
          next_msg <= MaxMsgs /\ Broadcast(exclude, outs)

\* ============================================ ConversationService rate limit
RlSenders == {"s1"}
RlTickSteps == {RATE_LIMIT_WINDOW}

InitRL ==
    /\ rate_limits = <<>>
    /\ rl_inflight = [s \in RlSenders |-> 0]
    /\ rl_calls = [s \in RlSenders |-> 0]
    /\ rl_rejected = [s \in RlSenders |-> 0]
    /\ rl_failed = [s \in RlSenders |-> 0]
    /\ rl_now = 0
    /\ rl_ret = NoCall

\* The timestamps _check_rate_limit keeps: ts > now - RATE_LIMIT_WINDOW
InWindow(stamps) ==
    SelectSeq(stamps, LAMBDA ts : ts > rl_now - RATE_LIMIT_WINDOW)

LimitReachedStrict(stamps) == Len(stamps) > MAX_MESSAGES_PER_WINDOW

\* len(self.rate_limits[terminal_id]) >= self.MAX_MESSAGES_PER_WINDOW
LimitReached(stamps) == Len(stamps) >= MAX_MESSAGES_PER_WINDOW

\* add_message up to its first storage await: _check_rate_limit purges the
\* sender's list and raises ConversationRateLimitError or lets the call go on.
AddMessageCheck(s) ==
    /\ rl_calls[s] < MaxCalls
    /\ rl_inflight[s] < MaxInflight
    /\ rl_calls' = [rl_calls EXCEPT ![s] = @ + 1]
    /\ LET kept == InWindow(IF s \in DOMAIN rate_limits THEN rate_limits[s]
                            ELSE <<>>)
       IN /\ rate_limits' = With(rate_limits, s, kept)
          /\ IF LimitReached(kept)
             THEN /\ rl_rejected' = [rl_rejected EXCEPT ![s] = @ + 1]
                  /\ rl_ret' = Ret("add_message", s, "ConversationRateLimitError")
                  /\ UNCHANGED rl_inflight
             ELSE /\ rl_inflight' = [rl_inflight EXCEPT ![s] = @ + 1]
                  /\ UNCHANGED <<rl_rejected, rl_ret>>
    /\ UNCHANGED <<rl_failed, rl_now>>
    /\ UNCHANGED <<msVars, cmVars, aiVars>>

\* The rest of add_message: the conversation is found and the message stored,
\* then _update_rate_limit appends utcnow(); or a storage step raises and
\* nothing is recorded.
AddMessageFinish(s, stored) ==
    /\ rl_inflight[s] > 0
    /\ rl_inflight' = [rl_inflight EXCEPT ![s] = @ - 1]
    /\ IF stored
       THEN /\ rate_limits' = [rate_limits EXCEPT ![s] = Append(@, rl_now)]
            /\ rl_ret' = Ret("add_message", s, "ok")
            /\ UNCHANGED rl_failed
       ELSE /\ rl_failed[s] < MaxFailures
            /\ rl_failed' = [rl_failed EXCEPT ![s] = @ + 1]
            /\ rl_ret' = Ret("add_message", s, "ConversationServiceError")
            /\ UNCHANGED rate_limits
    /\ UNCHANGED <<rl_calls, rl_rejected, rl_now>>
    /\ UNCHANGED <<msVars, cmVars, aiVars>>

TickRL ==
    /\ \E d \in RlTickSteps :
          /\ rl_now + d <= MaxRlTime
          /\ rl_now' = rl_now + d
    /\ UNCHANGED <<rate_limits, rl_inflight, rl_calls, rl_rejected, rl_failed,
                   rl_ret>>
    /\ UNCHANGED <<msVars, cmVars, aiVars>>

\* Callers that await each add_message before making the next one.
NextRLSeq ==
    \/ \E s \in RlSenders :
          (\A u \in RlSenders : rl_inflight[u] = 0) /\ AddMessageCheck(s)
    \/ \E s \in RlSenders, stored \in BOOLEAN : AddMessageFinish(s, stored)
    \/ TickRL

\* Callers that overlap.
NextRL ==
    \/ \E s \in RlSenders : AddMessageCheck(s)
    \/ \E s \in RlSenders, stored \in BOOLEAN : AddMessageFinish(s, stored)
    \/ TickRL

\* One terminal's connection with every caller and both background loops.
NextCMOne ==
    \/ \E out \in {"ok", "Exception"} : Connect(Recipient, out)
    \/ Disconnect(Recipient)
    \/ \E ws \in 1..MaxWs : ClientDisconnected(ws)
    \/ \E retry \in BOOLEAN, out \in TransportOutcomes :
          next_msg <= MaxMsgs /\ CmSendMessage(Recipient, retry, out)
    \/ \E out \in {"ok", "Exception"} : ConnectionHeartbeat(Recipient, out)
    \/ ConnectionHeartbeatExit(Recipient)
    \/ HeartbeatMonitor
    \/ CleanupDisconnected
    \/ TickCM

\* Messages sent, with retry, to a terminal that is not connected: the
\* terminal is connected and disconnected before the first message only.
NextCMBuf ==
    \/ next_msg = 1 /\ Connect(Recipient, "ok")
    \/ next_msg = 1 /\ Disconnect(Recipient)
    \/ /\ NotConnected(Recipient)
       /\ \E out \in TransportOutcomes : CmSendMessage(Recipient, TRUE, out)

\* One terminal's connection driven by its callers alone (connect,
\* disconnect, send_message and the peer closing the socket): the background
\* loops do not run and no time passes.
NextCMCalls ==
    \/ \E out \in {"ok", "Exception"} : Connect(Recipient, out)
    \/ Disconnect(Recipient)
    \/ \E ws \in 1..MaxWs : ClientDisconnected(ws)
    \/ \E retry \in BOOLEAN, out \in TransportOutcomes :
          next_msg <= MaxMsgs /\ CmSendMessage(Recipient, retry, out)

\* One terminal's connection under the cleanup sweep, on a clock that moves
\* in steps of HEARTBEAT_INTERVAL so that a connection is seen exactly
\* RECONNECT_TIMEOUT after its disconnect as well as later: every caller, the
\* heartbeat loops and the sweep; one message may be sent.
NextCMSweep ==
    \/ \E out \in {"ok", "Exception"} : Connect(Recipient, out)
    \/ Disconnect(Recipient)
    \/ \E ws \in 1..MaxWs : ClientDisconnected(ws)
    \/ \E out \in TransportOutcomes :
          next_msg = 1 /\ CmSendMessage(Recipient, TRUE, out)
    \/ \E out \in {"ok", "Exception"} : ConnectionHeartbeat(Recipient, out)
    \/ ConnectionHeartbeatExit(Recipient)
    \/ HeartbeatMonitor
    \/ CleanupDisconnected
    \/ TickCMBy(HEARTBEAT_INTERVAL)

\* _cleanup_disconnected is an asyncio task that sleeps 60 seconds between two
\* passes and is woken again by the event loop; time passes.
FairSweep ==
    /\ WF_vars(CleanupDisconnected)
    /\ WF_vars(TickCMBy(HEARTBEAT_INTERVAL))

\* Connections left to the background loops: a caller connects a terminal
\* that has no connection, may disconnect it, and makes no other call.
NextCMAuto ==
    \/ \E t \in Terminals :
          t \notin DOMAIN cm_active_connections /\ Connect(t, "ok")
    \/ \E t \in Terminals : Disconnect(t)
    \/ \E ws \in 1..MaxWs : ClientDisconnected(ws)
    \/ \E t \in Terminals, out \in {"ok", "Exception"} : ConnectionHeartbeat(t, out)
    \/ \E t \in Terminals : ConnectionHeartbeatExit(t)
    \/ HeartbeatMonitor
    \/ CleanupDisconnected
    \/ TickCM

\* The loops of the ConnectionManager are asyncio tasks that sleep and are
\* woken again by the event loop; time passes.
FairCM ==
    /\ WF_vars(HeartbeatMonitor)
    /\ WF_vars(CleanupDisconnected)
    /\ WF_vars(TickCM)
    /\ \A t \in Terminals :
          /\ WF_vars(\E out \in {"ok", "Exception"} : ConnectionHeartbeat(t, out))
          /\ WF_vars(ConnectionHeartbeatExit(t))

\* ===================================================== ConversationManager
\* Conversation ids are "conv-<t1>-<t2>-<timestamp to the microsecond>": two
\* calls never share one, so an id is modelled by its rank of creation.
NewConversation(n, t1, t2) ==
    [id |-> n, terminal1_id |-> t1, terminal2_id |-> t2,
     start_time |-> cv_now, last_activity |-> cv_now, status |-> CONV_ACTIVE,
     messages |-> <<>>, end_reason |-> "none"]

\* terminal_conversations after create_conversation's loop over the two ids
AddToTerminals(tc, n, t1, t2) ==
    [t \in DOMAIN tc \cup {t1, t2} |->
        IF t \in {t1, t2}
        THEN (IF t \in DOMAIN tc THEN tc[t] ELSE {}) \cup {n}
        ELSE tc[t]]

CreateConversation(t1, t2) ==
    /\ cv_next <= MaxConvs
    /\ IF Cardinality(DOMAIN cv_active_conversations) >= MAX_CONVERSATIONS
       THEN /\ cv_ret' = Ret("create", "none", "ConversationError")
            /\ UNCHANGED <<cv_active_conversations, conversation_pairs,
                           terminal_conversations, cv_next>>
       ELSE /\ cv_active_conversations' =
                  With(cv_active_conversations, cv_next,
                       NewConversation(cv_next, t1, t2))
            /\ conversation_pairs' = With(conversation_pairs, cv_next, <<t1, t2>>)
            /\ terminal_conversations' =
                  AddToTerminals(terminal_conversations, cv_next, t1, t2)
            /\ cv_next' = cv_next + 1
            /\ cv_ret' = Ret("create", cv_next, "ok")
    /\ UNCHANGED cv_now
    /\ UNCHANGED <<msVars, cmVars, rlVars, atVars>>

\* conversation['terminal1_id', conversation['terminal2_id']]: the
\* conversation dict is subscripted with a tuple, which is none of its keys.
ConversationKeys ==
    {"id", "terminal1_id", "terminal2_id", "start_time", "last_activity",
     "status", "messages", "metadata"}

TupleSubscript(conv) ==
    IF "tuple" \in ConversationKeys THEN "ok" ELSE "KeyError"

\* add_message up to its return or raise: what it leaves of the conversation
\* and how it ends.
AddMessageTo(conv, sender) ==
    IF conv.status # CONV_ACTIVE
    THEN [conv |-> conv, err |-> "ConversationError"]
    ELSE IF Len(conv.messages) >= MESSAGE_LIMIT
    THEN [conv |-> conv, err |-> "ConversationError"]
    ELSE IF TupleSubscript(conv) = "KeyError"
    THEN \* the KeyError is raised again as ConversationError
         [conv |-> conv, err |-> "ConversationError"]
    ELSE [conv |-> [conv EXCEPT
                       !.messages = Append(@, [n |-> Len(@), sender_id |-> sender]),
                       !.last_activity = cv_now],
          err |-> "ok"]

AddMessage(cid, sender) ==
    /\ IF cid \notin DOMAIN cv_active_conversations
       THEN /\ cv_ret' = Ret("add", cid, "ConversationError")
            /\ UNCHANGED cv_active_conversations
       ELSE LET r == AddMessageTo(cv_active_conversations[cid], sender)
            IN /\ cv_active_conversations' =
                     [cv_active_conversations EXCEPT ![cid] = r.conv]
               /\ cv_ret' = Ret("add", cid, r.err)
    /\ UNCHANGED <<conversation_pairs, terminal_conversations, cv_next, cv_now>>
    /\ UNCHANGED <<msVars, cmVars, rlVars, atVars>>

\* The loop of end_conversation over (terminal1_id, terminal2_id):
\* set.remove raises KeyError when the id is not in the set.
RECURSIVE RemoveFromTerminals(_, _, _, _)
RemoveFromTerminals(tc, cid, pair, i) ==
    IF i > Len(pair) THEN [tc |-> tc, err |-> "ok"]
    ELSE LET t == pair[i]
         IN IF t \notin DOMAIN tc
            THEN RemoveFromTerminals(tc, cid, pair, i + 1)
            ELSE IF cid \notin tc[t]
            THEN [tc |-> tc, err |-> "KeyError"]
            ELSE RemoveFromTerminals([tc EXCEPT ![t] = @ \ {cid}], cid, pair,
                                     i + 1)

\* end_conversation on the manager's three maps: the maps it leaves and how
\* it ends.
EndConversationIn(st, cid, reason) ==
    IF cid \notin DOMAIN st.act
    THEN [st |-> st, err |-> "ConversationError"]
    ELSE LET act1 == [st.act EXCEPT ![cid].status = CONV_ENDED,
                                    ![cid].end_reason = reason]
         IN IF cid \notin DOMAIN st.pairs
            THEN [st |-> [st EXCEPT !.act = act1], err |-> "ConversationError"]
            ELSE LET r == RemoveFromTerminals(st.tc, cid, st.pairs[cid], 1)
                 IN IF r.err # "ok"
                    THEN [st |-> [act |-> act1, pairs |-> st.pairs, tc |-> r.tc],
                          err |-> "ConversationError"]
                    ELSE [st |-> [act |-> Without(act1, cid),
                                  pairs |-> Without(st.pairs, cid),
                                  tc |-> r.tc],
                          err |-> "ok"]

CvState ==
    [act |-> cv_active_conversations, pairs |-> conversation_pairs,
     tc |-> terminal_conversations]

CvEndConversation(cid, reason) ==
    /\ LET r == EndConversationIn(CvState, cid, reason)
       IN /\ cv_active_conversations' = r.st.act
          /\ conversation_pairs' = r.st.pairs
          /\ terminal_conversations' = r.st.tc
          /\ cv_ret' = Ret("end", cid, r.err)
    /\ UNCHANGED <<cv_next, cv_now>>
    /\ UNCHANGED <<msVars, cmVars, rlVars, atVars>>

\* list(self.active_conversations.items()): the dict keeps insertion order,
\* which is the order of the ids.
RECURSIVE InOrder(_)
InOrder(S) ==
    IF S = {} THEN <<>>
    ELSE LET m == CHOOSE x \in S : \A y \in S : x <= y
         IN <<m>> \o InOrder(S \ {m})

Idle(conv) == (cv_now - conv.last_activity) > IDLE_TIMEOUT

\* One pass of _cleanup_inactive_conversations over the snapshot o: an
\* exception of end_conversation leaves the loop.
RECURSIVE CleanupPass(_, _, _, _)
CleanupPass(st, snap, o, i) ==
    IF i > Len(o) THEN st
    ELSE IF Idle(snap[o[i]])
    THEN LET r == EndConversationIn(st, o[i], "inactivity_timeout")
         IN IF r.err # "ok" THEN r.st
            ELSE CleanupPass(r.st, snap, o, i + 1)
    ELSE CleanupPass(st, snap, o, i + 1)

CleanupInactiveConversations ==
    /\ LET st == CleanupPass(CvState, cv_active_conversations,
                             InOrder(DOMAIN cv_active_conversations), 1)
       IN /\ cv_active_conversations' = st.act
          /\ conversation_pairs' = st.pairs
          /\ terminal_conversations' = st.tc
    /\ cv_ret' = Ret("sweep", "none", "ok")
    /\ UNCHANGED <<cv_next, cv_now>>
    /\ UNCHANGED <<msVars, cmVars, rlVars, atVars>>

TickCV ==
    /\ cv_now + IDLE_TIMEOUT <= MaxCvTime
    /\ cv_now' = cv_now + IDLE_TIMEOUT
    /\ UNCHANGED <<cv_active_conversations, conversation_pairs,
                   terminal_conversations, cv_next, cv_ret>>
    /\ UNCHANGED <<msVars, cmVars, rlVars, atVars>>

InitCV ==
    /\ cv_active_conversations = <<>>
    /\ conversation_pairs = <<>>
    /\ terminal_conversations = <<>>
    /\ cv_next = 1
    /\ cv_now = 0
    /\ cv_ret = NoCall

ConvIds == 1..MaxConvs

NextCV ==
    \/ \E t1 \in Terminals, t2 \in Terminals : CreateConversation(t1, t2)
    \/ \E cid \in ConvIds, s \in Terminals : AddMessage(cid, s)
    \/ \E cid \in ConvIds : CvEndConversation(cid, "caller")
    \/ CleanupInactiveConversations
    \/ TickCV

\* ============================================ AITerminal, TerminalRegistry
\* A conversation id is a uuid4: each start_conversation draws a new one,
\* modelled by its rank.  NoConversation stands for None.
NoConversation == 0

\* The receive_message call of a terminal that is suspended in
\* asyncio.wait_for(self.generate_response(message)): the message's
\* conversation_id and sender_id, the retries of generate_response, and the
\* public call (and its terminal) at the bottom of the chain of calls.
NoPending ==
    [conv |-> NoConversation, sender_id |-> "none", retries |-> 0,
     call |-> "none", caller |-> "none"]

Pending(conv, sender, call, caller) ==
    [conv |-> conv, sender_id |-> sender, retries |-> 0,
     call |-> call, caller |-> caller]

\* _add_to_history on a history of n messages
AddToHistory(n) ==
    IF n + 1 > MAX_HISTORY_SIZE THEN MAX_HISTORY_SIZE ELSE n + 1

\* send_message of terminal t followed by receive_message of the recipient r
\* up to its first suspension: both append the message to their history
Exchanged(hist, t, r) ==
    LET h1 == [hist EXCEPT ![t] = AddToHistory(@)]
    IN [h1 EXCEPT ![r] = AddToHistory(@)]

\* message.conversation_id in self.active_conversations
Answers(active, r, conv) == conv \in active[r]

StartConversation(t, o) ==
    /\ IF at_status[t] # T_IDLE
       THEN /\ at_ret' = Ret("start", t, "RuntimeError")
            /\ UNCHANGED <<at_status, current_conversation_id,
                           at_active_conversations, conversation_history,
                           at_pending, at_next_conv>>
       ELSE LET c == at_next_conv
                active == [at_active_conversations EXCEPT ![t] = @ \cup {c}]
            IN /\ at_next_conv <= MaxUuids
               /\ at_pending[o] = NoPending
               /\ at_next_conv' = c + 1
               /\ at_status' = [at_status EXCEPT ![t] = T_ACTIVE]
               /\ current_conversation_id' =
                     [current_conversation_id EXCEPT ![t] = c]
               /\ at_active_conversations' = active
               /\ conversation_history' = Exchanged(conversation_history, t, o)
               /\ IF Answers(active, o, c)
                  THEN /\ at_pending' = [at_pending EXCEPT ![o] =
                              Pending(c, t, "start", t)]
                       /\ at_ret' = Ret("start", t, "suspended")
                  ELSE /\ at_ret' = Ret("start", t, "ok")
                       /\ UNCHANGED at_pending
    /\ at_gen' = "none"
    /\ UNCHANGED registry
    /\ UNCHANGED <<msVars, cmVars, rlVars, cvVars>>

\* A caller delivers a message of conversation conv from sender to terminal t.
ReceiveMessage(t, conv, sender) ==
    /\ at_pending[t] = NoPending
    /\ conversation_history' =
          [conversation_history EXCEPT ![t] = AddToHistory(@)]
    /\ IF Answers(at_active_conversations, t, conv)
       THEN /\ at_pending' = [at_pending EXCEPT ![t] =
                   Pending(conv, sender, "receive", t)]
            /\ at_ret' = Ret("receive", t, "suspended")
       ELSE /\ at_ret' = Ret("receive", t, "ok")
            /\ UNCHANGED at_pending
    /\ at_gen' = "none"
    /\ UNCHANGED <<at_status, current_conversation_id, at_active_conversations,
                   registry, at_next_conv>>
    /\ UNCHANGED <<msVars, cmVars, rlVars, cvVars>>

\* How generate_response ends an attempt with outcome out after `retries`
\* failed attempts: it returns, sleeps and tries again, or raises.
GenerationEnds(out, retries) ==
    IF out = "ok" THEN "ok"
    ELSE IF retries + 1 = AT_MAX_RETRIES THEN "Exception"
    ELSE "retry"

\* receive_message goes on to send a response only when generate_response
\* returned one.
RespondsUnlessRetry(ends) == ends # "retry"

Responds(ends) == ends = "ok"

\* One attempt of generate_response in the suspended receive_message of t,
\* and what receive_message does when generate_response is over.
GenerationAttempt(t, out) ==
    /\ at_pending[t] # NoPending
    /\ LET p == at_pending[t]
           ends == GenerationEnds(out, p.retries)
           done == [at_pending EXCEPT ![t] = NoPending]
       IN /\ at_gen' = ends
          /\ IF Responds(ends)
             THEN IF p.sender_id \notin registry
                  THEN \* get_sender_terminal returns None
                       /\ at_pending' = done
                       /\ at_ret' = Ret(p.call, p.caller, "ok")
                       /\ UNCHANGED <<at_status, conversation_history>>
                  ELSE IF current_conversation_id[t] = NoConversation
                  THEN \* send_message raises RuntimeError, caught at 116
                       /\ at_status' = [at_status EXCEPT ![t] = T_ERROR]
                       /\ at_pending' = done
                       /\ at_ret' = Ret(p.call, p.caller, "ok")
                       /\ UNCHANGED conversation_history
                  ELSE LET s == p.sender_id
                           c == current_conversation_id[t]
                       IN /\ conversation_history' =
                                Exchanged(conversation_history, t, s)
                          /\ IF Answers(at_active_conversations, s, c)
                             THEN /\ at_pending' = [done EXCEPT ![s] =
                                         Pending(c, t, p.call, p.caller)]
                                  /\ UNCHANGED at_ret
                             ELSE /\ at_pending' = done
                                  /\ at_ret' = Ret(p.call, p.caller, "ok")
                          /\ UNCHANGED at_status
             ELSE IF ends = "retry"
             THEN /\ at_pending' = [at_pending EXCEPT ![t].retries = @ + 1]
                  /\ UNCHANGED <<at_status, conversation_history, at_ret>>
             ELSE /\ at_status' = [at_status EXCEPT ![t] = T_ERROR]
                  /\ at_pending' = done
                  /\ at_ret' = Ret(p.call, p.caller, "ok")
                  /\ UNCHANGED conversation_history
    /\ UNCHANGED <<current_conversation_id, at_active_conversations, registry,
                   at_next_conv>>
    /\ UNCHANGED <<msVars, cmVars, rlVars, cvVars>>

\* asyncio.wait_for gives up after RESPONSE_TIMEOUT: the TimeoutError is
\* logged and receive_message returns.
GenerationTimeout(t) ==
    /\ at_pending[t] # NoPending
    /\ at_gen' = "TimeoutError"
    /\ at_pending' = [at_pending EXCEPT ![t] = NoPending]
    /\ at_ret' = Ret(at_pending[t].call, at_pending[t].caller, "ok")
    /\ UNCHANGED <<at_status, current_conversation_id, at_active_conversations,
                   conversation_history, registry, at_next_conv>>
    /\ UNCHANGED <<msVars, cmVars, rlVars, cvVars>>

\* end_conversation on the fields of one terminal
EndIn(st, c) ==
    IF c \notin st.active THEN st
    ELSE LET a == st.active \ {c}
         IN IF a = {}
            THEN [active |-> a, status |-> T_IDLE, current |-> NoConversation]
            ELSE [st EXCEPT !.active = a]

TerminalFields(t) ==
    [active |-> at_active_conversations[t], status |-> at_status[t],
     current |-> current_conversation_id[t]]

AtEndConversation(t, c) ==
    /\ LET st == EndIn(TerminalFields(t), c)
       IN /\ at_active_conversations' =
                [at_active_conversations EXCEPT ![t] = st.active]
          /\ at_status' = [at_status EXCEPT ![t] = st.status]
          /\ current_conversation_id' =
                [current_conversation_id EXCEPT ![t] = st.current]
    /\ at_ret' = Ret("end", t, "ok")
    /\ at_gen' = "none"
    /\ UNCHANGED <<conversation_history, registry, at_pending, at_next_conv>>
    /\ UNCHANGED <<msVars, cmVars, rlVars, cvVars>>

\* cleanup: end_conversation for every id of list(self.active_conversations)
RECURSIVE EndAll(_, _)
EndAll(st, S) ==
    IF S = {} THEN st
    ELSE LET c == CHOOSE x \in S : TRUE
         IN EndAll(EndIn(st, c), S \ {c})

AtCleanup(t) ==
    /\ LET st == EndAll(TerminalFields(t), at_active_conversations[t])
       IN /\ at_active_conversations' =
                [at_active_conversations EXCEPT ![t] = st.active]
          /\ at_status' = [at_status EXCEPT ![t] = st.status]
          /\ current_conversation_id' =
                [current_conversation_id EXCEPT ![t] = st.current]
    /\ registry' = registry \ {t}
    /\ conversation_history' = [conversation_history EXCEPT ![t] = 0]
    /\ at_ret' = Ret("cleanup", t, "ok")
    /\ at_gen' = "none"
    /\ UNCHANGED <<at_pending, at_next_conv>>
    /\ UNCHANGED <<msVars, cmVars, rlVars, cvVars>>

\* Both terminals have been constructed: AITerminal.__init__ registers them.
InitAT ==
    /\ at_status = [t \in Terminals |-> T_IDLE]
    /\ current_conversation_id = [t \in Terminals |-> NoConversation]
    /\ at_active_conversations = [t \in Terminals |-> {}]
    /\ conversation_history = [t \in Terminals |-> 0]
    /\ registry = Terminals
    /\ at_pending = [t \in Terminals |-> NoPending]
    /\ at_next_conv = 1
    /\ at_gen = "none"
    /\ at_ret = NoCall

Uuids == 1..MaxUuids

NextAT ==
    \/ \E t \in Terminals, o \in Terminals : StartConversation(t, o)
    \/ \E t \in Terminals, c \in Uuids, s \in Terminals : ReceiveMessage(t, c, s)
    \/ \E t \in Terminals, out \in {"ok", "Exception"} : GenerationAttempt(t, out)
    \/ \E t \in Terminals : GenerationTimeout(t)
    \/ \E t \in Terminals, c \in Uuids : AtEndConversation(t, c)
    \/ \E t \in Terminals : AtCleanup(t)

\* ------------------------------------------------------------------- specs
\* The whole MessagingService, every input of the input sets.
NextMS ==
    \/ \E t \in Terminals, obj \in TerminalObjs, qs \in QueueSizeArgs :
          RegisterTerminal(t, obj, qs)
    \/ \E t \in Terminals, cleanup \in BOOLEAN : UnregisterTerminal(t, cleanup)
    \/ \E s \in Senders, r \in Terminals, c \in Contents, p \in Priorities,
          to \in TimeoutArgs : SendMessage(s, r, c, p, to)
    \/ \E id \in Ids : PutComplete(id)
    \/ \E id \in Ids : PutTimeout(id)
    \/ \E t \in Terminals : GetMessages(t)
    \/ \E t \in Terminals : WorkerCollect(t)
    \/ \E t \in Terminals : WorkerResend(t)
    \/ \E t \in Terminals : WorkerPutComplete(t)
    \/ \E t \in Terminals : WorkerPutTimeout(t)
    \/ CleanupExpiredMessages
    \/ TickMS
    \/ CleanupMS

\* Views of the same actions on narrower inputs, small enough to explore.
\* Neither the worker nor the queue reads the clock or an envelope's state,
\* so the views without TickMS and the sweep reach the same terminals, queues,
\* tasks and attempts as NextMS does.

\* One recipient's queue: every priority, QueueViewIds envelopes, no clock
\* and no unregistration.
NextMSQueue ==
    \/ \E qs \in QueueSizeArgs : RegisterTerminal(Recipient, "objA", qs)
    \/ \E s \in Senders, c \in Contents, p \in Priorities :
          next_id <= QueueViewIds /\ SendMessage(s, Recipient, c, p, NoTimeout)
    \/ \E id \in Ids : PutComplete(id)
    \/ \E id \in Ids : PutTimeout(id)
    \/ GetMessages(Recipient)
    \/ WorkerCollect(Recipient)
    \/ next_id <= QueueViewIds /\ WorkerResend(Recipient)
    \/ WorkerPutComplete(Recipient)
    \/ WorkerPutTimeout(Recipient)

\* One recipient's registration life cycle: registration with either
\* terminal object, unregistration and re-registration, one priority.
NextMSLife ==
    \/ \E obj \in TerminalObjs, qs \in QueueSizeArgs :
          RegisterTerminal(Recipient, obj, qs)
    \/ \E cleanup \in BOOLEAN : UnregisterTerminal(Recipient, cleanup)
    \/ \E s \in Senders, c \in Contents :
          next_id <= LifeIds /\ SendMessage(s, Recipient, c, NORMAL, NoTimeout)
    \/ \E id \in Ids : PutComplete(id)
    \/ \E id \in Ids : PutTimeout(id)
    \/ GetMessages(Recipient)
    \/ WorkerCollect(Recipient)
    \/ next_id <= LifeIds /\ WorkerResend(Recipient)
    \/ WorkerPutComplete(Recipient)
    \/ WorkerPutTimeout(Recipient)

\* One recipient's queue with unregistration and re-registration, two
\* priorities and fewer envelopes.
NextMSFifo ==
    \/ \E qs \in QueueSizeArgs : RegisterTerminal(Recipient, "objA", qs)
    \/ \E cleanup \in BOOLEAN : UnregisterTerminal(Recipient, cleanup)
    \/ \E s \in Senders, c \in Contents, p \in {HIGH, NORMAL} :
          next_id <= FifoIds /\ SendMessage(s, Recipient, c, p, NoTimeout)
    \/ \E id \in Ids : PutComplete(id)
    \/ \E id \in Ids : PutTimeout(id)
    \/ GetMessages(Recipient)
    \/ WorkerCollect(Recipient)
    \/ next_id <= FifoIds /\ WorkerResend(Recipient)
    \/ WorkerPutComplete(Recipient)
    \/ WorkerPutTimeout(Recipient)

\* One recipient with the clock and the expiry sweep.
NextMSTime ==
    \/ \E qs \in QueueSizeArgs : RegisterTerminal(Recipient, "objA", qs)
    \/ \E s \in Senders, c \in Contents, to \in TimeoutArgs :
          next_id <= TimedIds /\ SendMessage(s, Recipient, c, NORMAL, to)
    \/ \E id \in Ids : PutComplete(id)
    \/ \E id \in Ids : PutTimeout(id)
    \/ GetMessages(Recipient)
    \/ WorkerCollect(Recipient)
    \/ next_id <= TimedIds /\ WorkerResend(Recipient)
    \/ WorkerPutComplete(Recipient)
    \/ WorkerPutTimeout(Recipient)
    \/ CleanupExpiredMessages
    \/ TickMS

\* One sender that sends to one recipient, one message after the other, each
\* send awaited before the next; the queue has the default size and the clock
\* stands still, so every message is sent within one rate limit window.
NextMSRate ==
    \/ RegisterTerminal(Recipient, "objA", 0)
    \/ \E s \in Senders, c \in Contents :
          putters = {} /\ SendMessage(s, Recipient, c, NORMAL, NoTimeout)
    \/ \E id \in Ids : PutComplete(id)
    \/ GetMessages(Recipient)

\* Terminals that talk to each other: a terminal starts a conversation with
\* the other one, callers deliver messages to either, and the suspended
\* generations run.  Callers stop when a history holds MaxHistory messages.
NextATRecv ==
    \/ \E t \in Terminals : \E o \in Terminals \ {t} :
          conversation_history[t] < MaxHistory /\ StartConversation(t, o)
    \/ \E t \in Terminals, c \in Uuids : \E s \in Terminals \ {t} :
          conversation_history[t] < MaxHistory /\ ReceiveMessage(t, c, s)
    \/ \E t \in Terminals, out \in {"ok", "Exception"} : GenerationAttempt(t, out)
    \/ \E t \in Terminals : GenerationTimeout(t)

\* One terminal under interleaved calls of its four public methods, itself
\* included as the other terminal.
NextATCalls ==
    \/ \E o \in Terminals :
          conversation_history[Recipient] < MaxHistory
          /\ StartConversation(Recipient, o)
    \/ \E c \in Uuids, s \in Terminals :
          conversation_history[Recipient] < MaxHistory
          /\ ReceiveMessage(Recipient, c, s)
    \/ \E t \in Terminals, out \in {"ok", "Exception"} :
          conversation_history[t] < MaxHistory /\ GenerationAttempt(t, out)
    \/ \E t \in Terminals : GenerationTimeout(t)
    \/ \E c \in Uuids : AtEndConversation(Recipient, c)
    \/ AtCleanup(Recipient)

\* A terminal starts one conversation, with the other terminal or with
\* itself, and the chain of calls it triggers runs.
NextATChain ==
    \/ \E o \in Terminals : StartConversation(Recipient, o)
    \/ \E t \in Terminals, out \in {"ok", "Exception"} : GenerationAttempt(t, out)
    \/ \E t \in Terminals : GenerationTimeout(t)

\* The event loop resumes a suspended generate_response: an attempt of it
\* ends, one way or the other.
FairATChain ==
    \A t \in Terminals :
        WF_vars(\E out \in {"ok", "Exception"} : GenerationAttempt(t, out))

\* A recipient whose queue holds two envelopes: the worker drains batches of
\* two while senders keep the queue full.
BatchQueueSize == 2

NextMSBatch ==
    \/ RegisterTerminal(Recipient, "objA", BatchQueueSize)
    \/ \E s \in Senders, c \in Contents :
          next_id <= BatchIds /\ SendMessage(s, Recipient, c, NORMAL, NoTimeout)
    \/ \E id \in Ids : PutComplete(id)
    \/ \E id \in Ids : PutTimeout(id)
    \/ WorkerCollect(Recipient)
    \/ next_id <= BatchIds /\ WorkerResend(Recipient)
    \/ WorkerPutComplete(Recipient)
    \/ WorkerPutTimeout(Recipient)

\* Normal operation of the timed view: the clock advances, the sweep and the
\* worker are tasks the event loop keeps scheduling, a consumer keeps
\* iterating get_messages, and a put on a queue with room completes.
FairMSTime ==
    /\ WF_vars(TickMS)
    /\ WF_vars(CleanupExpiredMessages)
    /\ WF_vars(GetMessages(Recipient))
    /\ WF_vars(WorkerCollect(Recipient))
    /\ WF_vars(next_id <= TimedIds /\ WorkerResend(Recipient))
    /\ WF_vars(WorkerPutComplete(Recipient))
    /\ \A id \in Ids : WF_vars(PutComplete(id))

\* The timed view with the default queue size: no put finds the queue full.
NextMSExpire ==
    \/ Recipient \notin DOMAIN terminals /\ RegisterTerminal(Recipient, "objA", 0)
    \/ \E s \in Senders, c \in Contents :
          next_id <= ExpireIds /\ SendMessage(s, Recipient, c, NORMAL, NoTimeout)
    \/ \E id \in Ids : PutComplete(id)
    \/ GetMessages(Recipient)
    \/ WorkerCollect(Recipient)
    \/ next_id <= ExpireIds /\ WorkerResend(Recipient)
    \/ WorkerPutComplete(Recipient)
    \/ CleanupExpiredMessages
    \/ TickMS

\* The clock advances, the sweep and the worker are tasks the event loop
\* keeps scheduling, and a put on a queue with room completes.
FairMSExpire ==
    /\ WF_vars(TickMS)
    /\ WF_vars(CleanupExpiredMessages)
    /\ WF_vars(WorkerCollect(Recipient))
    /\ WF_vars(next_id <= ExpireIds /\ WorkerResend(Recipient))
    /\ WF_vars(WorkerPutComplete(Recipient))
    /\ \A id \in Ids : WF_vars(PutComplete(id))

\* The scenario of test_messaging_service: both terminals are registered with
\* the default queue size, one message is sent to the second terminal, and a
\* consumer iterates get_messages for it while its worker runs.  A queue of
\* QUEUE_SIZE is never full here, so no put times out.
Consumer == "t2"

NextMSTest ==
    \/ \E t \in Terminals : RegisterTerminal(t, "objA", 0)
    \/ \E s \in Senders, c \in Contents, p \in Priorities :
          next_id = 1 /\ SendMessage(s, Consumer, c, p, NoTimeout)
    \/ \E id \in Ids : PutComplete(id)
    \/ GetMessages(Consumer)
    \/ \E t \in Terminals : WorkerCollect(t)
    \/ \E t \in Terminals : next_id <= LifeIds /\ WorkerResend(t)
    \/ \E t \in Terminals : WorkerPutComplete(t)

\* The worker is a task the event loop keeps scheduling, and a put on a queue
\* with room completes.  queue.put wakes a consumer waiting in queue.get
\* before the worker can poll again, so a consumer that finds a message in
\* the queue again and again does take one.
FairMSTest ==
    /\ \A id \in Ids : WF_vars(PutComplete(id))
    /\ \A t \in Terminals :
          /\ WF_vars(WorkerCollect(t))
          /\ WF_vars(next_id <= LifeIds /\ WorkerResend(t))
          /\ WF_vars(WorkerPutComplete(t))
    /\ SF_vars(GetMessages(Consumer))

\* One recipient's life cycle with a shutdown of the service.
NextMSShutdown ==
    \/ \E qs \in QueueSizeArgs : RegisterTerminal(Recipient, "objA", qs)
    \/ \E s \in Senders, c \in Contents :
          next_id <= LifeIds /\ SendMessage(s, Recipient, c, NORMAL, NoTimeout)
    \/ \E id \in Ids : PutComplete(id)
    \/ \E id \in Ids : PutTimeout(id)
    \/ GetMessages(Recipient)
    \/ WorkerCollect(Recipient)
    \/ next_id <= LifeIds /\ WorkerResend(Recipient)
    \/ WorkerPutComplete(Recipient)
    \/ WorkerPutTimeout(Recipient)
    \/ CleanupMS

\* Two terminals that are connected once each, and broadcasts to them; a
\* terminal leaves the CONNECTED state through a failed send.
NextCMCast ==
    \/ \E t \in Terminals :
          t \notin DOMAIN cm_active_connections /\ Connect(t, "ok")
    \/ \E exclude \in SUBSET Terminals, outs \in [Terminals -> TransportOutcomes] :
          next_msg <= MaxCasts /\ Broadcast(exclude, outs)

\* One terminal's connection driven by its callers, with a shutdown of the
\* manager.
NextCMShutdown ==
    \/ NextCMCalls
    \/ CleanupCM

Init == InitMS /\ InitCM /\ InitRL /\ InitCV /\ InitAT

Next == NextMS \/ NextCM \/ NextRL \/ NextCV \/ NextAT

Spec == Init /\ [][Next]_vars
SpecMSLife == Init /\ [][NextMSLife]_vars
SpecMSQueue == Init /\ [][NextMSQueue]_vars
SpecMSFifo == Init /\ [][NextMSFifo]_vars
SpecMSTime == Init /\ [][NextMSTime]_vars
SpecMSBatch == Init /\ [][NextMSBatch]_vars
SpecMSExpire == Init /\ [][NextMSExpire]_vars /\ FairMSExpire
SpecMSTimeFair == Init /\ [][NextMSTime]_vars /\ FairMSTime
SpecMSTest == Init /\ [][NextMSTest]_vars /\ FairMSTest
SpecMSRate == Init /\ [][NextMSRate]_vars
SpecMSShutdown == Init /\ [][NextMSShutdown]_vars
SpecCM == Init /\ [][NextCM]_vars
SpecCMOne == Init /\ [][NextCMOne]_vars
SpecCMBuf == Init /\ [][NextCMBuf]_vars
SpecCMCalls == Init /\ [][NextCMCalls]_vars
SpecCMCast == Init /\ [][NextCMCast]_vars
SpecCMShutdown == Init /\ [][NextCMShutdown]_vars
SpecCMSweep == Init /\ [][NextCMSweep]_vars /\ FairSweep
SpecCMAuto ==
    Init /\ [][NextCMAuto]_vars /\ FairCM
SpecCV == Init /\ [][NextCV]_vars
SpecAT == Init /\ [][NextAT]_vars
SpecATRecv == Init /\ [][NextATRecv]_vars
SpecATCalls == Init /\ [][NextATCalls]_vars
SpecATChain == Init /\ [][NextATChain]_vars /\ FairATChain
SpecRLSeq == Init /\ [][NextRLSeq]_vars
SpecRL == Init /\ [][NextRL]_vars

\* ================================================================== claims
QueueIds(q) == {q.items[i] : i \in 1..Len(q.items)}
Range(q) == {q[i] : i \in 1..Len(q)}
\* The envelopes a step takes out of the queue of t, and those it leaves.
Left(t) == QueueIds(message_queues[t]) \ QueueIds(message_queues'[t])
Stay(t) == QueueIds(message_queues[t]) \cap QueueIds(message_queues'[t])
BatchOf(tasks, t) == IF t \in DOMAIN tasks THEN tasks[t].batch ELSE <<>>
RegisterCall(t) ==
    \E obj \in TerminalObjs, qs \in QueueSizeArgs : RegisterTerminal(t, obj, qs)

RECURSIVE SumAttempts(_)
SumAttempts(S) ==
    IF S = {} THEN 0
    ELSE LET id == CHOOSE i \in S : TRUE
         IN message_states[id].attempts + SumAttempts(S \ {id})

\* The envelopes that descend from the caller's send r, r included.
Lineage(r) == {id \in DOMAIN message_states : messages[id].root = r}

\* C1: a register_terminal call for a terminal id that is registered ends in
\* MessagingError and leaves the terminal object, the queue, the worker task
\* and the active-connection entry as they were; no step replaces the object
\* of a registered id, and a worker task always belongs to a registered id
\* that has a queue.
C1_RegisterRejectsDuplicate ==
    [][\A t \in Terminals :
          /\ (t \in DOMAIN terminals /\ RegisterCall(t)) =>
                /\ ms_ret' = Ret("register", t, "MessagingError")
                /\ UNCHANGED <<terminals, message_queues, processing_tasks,
                               active_connections>>
          /\ (t \in DOMAIN terminals /\ t \in DOMAIN terminals') =>
                terminals'[t] = terminals[t]
          /\ DOMAIN processing_tasks' \subseteq DOMAIN terminals'
          /\ DOMAIN message_queues' = DOMAIN terminals']_vars

\* a duplicate registration was just refused while the terminal had a queued
\* envelope and a running worker
C1_Witness ==
    \E t \in Terminals :
        /\ ms_ret = Ret("register", t, "MessagingError")
        /\ t \in DOMAIN terminals
        /\ t \in DOMAIN processing_tasks
        /\ Len(message_queues[t].items) > 0

\* C2: a connect call (whose accept succeeds) for a terminal that has a
\* CONNECTED connection fails with AlreadyConnected and leaves that
\* ConnectionInfo and the terminal's buffer as they were.
C2_ConnectRejectsLive ==
    [][\A t \in Terminals :
          (/\ t \in DOMAIN cm_active_connections
           /\ cm_active_connections[t].state = CONNECTED
           /\ Connect(t, "ok")) =>
             /\ cm_ret'.err = "AlreadyConnected"
             /\ cm_active_connections'[t] = cm_active_connections[t]
             /\ message_buffer'[t] = message_buffer[t]]_vars

\* C3: whatever a step takes out of a recipient's queue has a priority at
\* least as urgent as everything the step leaves in the queue, and a batch the
\* worker drains is in priority order (HIGH before NORMAL before LOW).
C3_PriorityDrain ==
    [][\A t \in DOMAIN message_queues \cap DOMAIN message_queues' :
          /\ \A x \in Left(t), y \in Stay(t) :
                messages[x].priority <= messages[y].priority
          /\ LET b == BatchOf(processing_tasks', t)
             IN (Left(t) # {} /\ Left(t) \subseteq Range(b)) =>
                   \A i, j \in 1..Len(b) :
                      i < j => messages[b[i]].priority <= messages[b[j]].priority
      ]_vars

\* C4: of two envelopes of equal priority in one recipient's queue, the one
\* whose put completed first leaves the queue first: a step never takes out
\* the later one and leaves the earlier one, and a drained batch holds them in
\* the order of their puts.
C4_FifoWithinPriority ==
    [][\A t \in DOMAIN message_queues \cap DOMAIN message_queues' :
          /\ \A x \in Left(t), y \in Stay(t) :
                messages[x].priority = messages[y].priority =>
                   arrival[x] < arrival[y]
          /\ LET b == BatchOf(processing_tasks', t)
             IN (Left(t) # {} /\ Left(t) \subseteq Range(b)) =>
                   \A i, j \in 1..Len(b) :
                      (i < j /\ messages[b[i]].priority = messages[b[j]].priority)
                         => arrival[b[i]] < arrival[b[j]]
      ]_vars

\* two senders overlapped: the envelope created later was put first, has been
\* drained, and the one put after it, of the same priority, is still queued
C4_Witness ==
    \E x, y \in DOMAIN messages :
        /\ x > y
        /\ messages[x].priority = messages[y].priority
        /\ messages[x].recipient_id = messages[y].recipient_id
        /\ 0 < arrival[x] /\ arrival[x] < arrival[y]
        /\ messages[x].recipient_id \in DOMAIN message_queues
        /\ y \in QueueIds(message_queues[messages[y].recipient_id])
        /\ x \notin QueueIds(message_queues[messages[x].recipient_id])
        /\ \/ message_states[x].state = DELIVERED
           \/ message_states[x].attempts >= 1

\* C5: a connect (whose accept succeeds) of a DISCONNECTED terminal with
\* buffered messages loses none of them: in their order they are the next
\* messages written to the terminal, or they are still at the head of its
\* buffer.
C5_ReconnectFlushesBuffer ==
    [][\A t \in Terminals :
          (/\ t \in DOMAIN cm_active_connections
           /\ cm_active_connections[t].state = DISCONNECTED
           /\ message_buffer[t] # <<>>
           /\ Connect(t, "ok")) =>
             LET held == wire'[t] \o message_buffer'[t]
                 from == Len(wire[t])
             IN /\ Len(held) >= from + Len(message_buffer[t])
                /\ SubSeq(held, from + 1, from + Len(message_buffer[t]))
                      = message_buffer[t]]_vars

\* C6: the delivery attempts made for one message, every re-offer of it
\* counted, never exceed MAX_RETRY_ATTEMPTS.
C6_AtMostMaxAttempts ==
    \A r \in Ids : SumAttempts(Lineage(r)) <= MAX_RETRY_ATTEMPTS

\* C7: an envelope sent with timeout = 0 that no consumer has taken is
\* Expired once an expiry sweep has run after its creation (with a timeout of
\* 0 the test age > timeout is true at every later instant), and, not being
\* consumed, it is never Delivered.
C7_ZeroTimeoutExpires ==
    \A id \in DOMAIN message_states :
        (/\ messages[id].timeout_arg = 0
         /\ ms_swept > message_states[id].created_at
         /\ message_states[id].state # DELIVERED) =>
            message_states[id].state = EXPIRED

\* C8: while the window start is fixed (the clock has not moved) and no call
\* failed in storage, a sender's sequential add_message calls are rejected by
\* the rate limit exactly from the 101st on: none of the first
\* MAX_MESSAGES_PER_WINDOW, and every one after them.
C8_RateLimitAt101 ==
    \A s \in RlSenders :
        (rl_now = 0 /\ rl_failed[s] = 0) =>
            rl_rejected[s] = IF rl_calls[s] > MAX_MESSAGES_PER_WINDOW
                             THEN rl_calls[s] - MAX_MESSAGES_PER_WINDOW
                             ELSE 0

\* the 101st call of the window has just been rejected, the only one so far
C8_Witness ==
    \E s \in RlSenders :
        /\ rl_now = 0 /\ rl_failed[s] = 0
        /\ rl_calls[s] = MAX_MESSAGES_PER_WINDOW + 1
        /\ rl_rejected[s] = 1
        /\ Len(rate_limits[s]) = MAX_MESSAGES_PER_WINDOW
        /\ rl_ret = Ret("add_message", s, "ConversationRateLimitError")

\* C9: left to the background loops, a CONNECTED connection whose heartbeat
\* is stale and does not recover (it is not seen CONNECTED with a fresh
\* heartbeat again) eventually becomes DISCONNECTED, or has been removed
\* after that.
C9_StaleEndsDisconnected ==
    \A t \in Terminals :
        (t \in DOMAIN cm_active_connections
            /\ HeartbeatStale(cm_active_connections[t]))
        ~> (\/ t \notin DOMAIN cm_active_connections
            \/ cm_active_connections[t].state = DISCONNECTED
            \/ /\ cm_active_connections[t].state = CONNECTED
               /\ ~HeartbeatStale(cm_active_connections[t]))

\* C10: an envelope that is Delivered, Failed or Expired keeps that state for
\* as long as it is tracked.
C10_TerminalStateIsFinal ==
    [][\A id \in DOMAIN message_states \cap DOMAIN message_states' :
          message_states[id].state # PENDING =>
             message_states'[id].state = message_states[id].state]_vars

\* C11: a send_message whose put finds the recipient's queue at capacity for
\* the whole wait does not fail: the call ends without an error.
C11_FullQueueDegrades ==
    [][\A id \in putters :
          LET r == messages[id].recipient_id
          IN (/\ id \notin putters'
              /\ r \in DOMAIN message_queues
              /\ r \in DOMAIN message_queues'
              /\ QueueFull(message_queues[r])) =>
                 ms_ret' = Ret("send", r, "ok")]_vars

\* C13: the attempts counter of every tracked envelope is between 0 and
\* MAX_RETRY_ATTEMPTS, and an envelope whose counter has reached
\* MAX_RETRY_ATTEMPTS is Failed.
C13_AttemptsBounded ==
    \A id \in DOMAIN message_states :
        /\ message_states[id].attempts >= 0
        /\ message_states[id].attempts <= MAX_RETRY_ATTEMPTS
        /\ message_states[id].attempts >= MAX_RETRY_ATTEMPTS =>
              message_states[id].state = FAILED

\* the worker has drained an envelope and counted a failed attempt, and the
\* re-offer of it exists with its own counter
C13_Witness ==
    \E id, re \in DOMAIN message_states :
        /\ id # re
        /\ messages[re].root = messages[id].root
        /\ message_states[id].attempts = 1
        /\ message_states[re].attempts = 0

\* C19: a send_message to a recipient id that is not registered ends in
\* MessagingError and changes nothing: no tracking record, no envelope, no
\* queue entry, no suspended put.
C19_SendToUnregisteredRejected ==
    [][\A s \in Senders, r \in Terminals, c \in Contents, p \in Priorities,
          to \in TimeoutArgs :
          (r \notin DOMAIN terminals /\ SendMessage(s, r, c, p, to)) =>
             /\ ms_ret' = Ret("send", r, "MessagingError")
             /\ UNCHANGED <<terminals, message_queues, processing_tasks,
                            message_states, active_connections, messages,
                            putters, next_id>>]_vars

\* a send to the recipient has just been refused after the recipient was
\* unregistered, with envelopes of earlier sends still tracked
C19_Witness ==
    /\ ms_ret = Ret("send", Recipient, "MessagingError")
    /\ Recipient \notin DOMAIN terminals
    /\ DOMAIN message_states # {}

\* C20: unregister_terminal for an id that is not registered ends without an
\* error and changes nothing, and an unregister_terminal that directly
\* follows an unregister_terminal of the same id ends without an error and
\* changes nothing either.
C20_UnregisterIdempotent ==
    [][\A t \in Terminals, cleanup \in BOOLEAN :
          (/\ UnregisterTerminal(t, cleanup)
           /\ \/ t \notin DOMAIN terminals
              \/ (ms_ret.op = "unregister" /\ ms_ret.arg = t)) =>
             /\ ms_ret' = Ret("unregister", t, "ok")
             /\ UNCHANGED <<terminals, message_queues, processing_tasks,
                            message_states, active_connections>>]_vars

\* C12: no terminal's buffer ever holds more than BUFFER_LIMIT (1000)
\* entries, and a send_message that buffers its message (it returns False
\* with retry on) leaves the buffer equal to the most recent BUFFER_LIMIT
\* entries of the old buffer followed by the message; the call does not fail.
C12_BufferBounded ==
    [][\A t \in Terminals :
          /\ t \in DOMAIN message_buffer' =>
                Len(message_buffer'[t]) <= BUFFER_LIMIT
          /\ \A out \in TransportOutcomes :
                (CmSendMessage(t, TRUE, out) /\ cm_ret'.err = "False") =>
                   LET old == IF t \in DOMAIN message_buffer
                              THEN message_buffer[t] ELSE <<>>
                       all == Append(old, next_msg)
                       n == Len(all)
                   IN /\ t \in DOMAIN message_buffer'
                      /\ message_buffer'[t] =
                            IF n > BUFFER_LIMIT
                            THEN SubSeq(all, n - BUFFER_LIMIT + 1, n)
                            ELSE all]_vars

\* the buffer is full and its two oldest messages have been evicted
C12_Witness ==
    /\ Recipient \in DOMAIN message_buffer
    /\ Len(message_buffer[Recipient]) = BUFFER_LIMIT
    /\ Head(message_buffer[Recipient]) = 3
    /\ message_buffer[Recipient][BUFFER_LIMIT] = BUFFER_LIMIT + 2

\* C16: send_message with retry to a terminal whose connection is absent or
\* not CONNECTED returns False, appends the message to the end of the
\* terminal's buffer, writes nothing to the transport, closes nothing and
\* leaves every ConnectionInfo as it was.
C16_SendWhileDownBuffers ==
    [][\A t \in Terminals, out \in TransportOutcomes :
          (NotConnected(t) /\ CmSendMessage(t, TRUE, out)) =>
             LET old == IF t \in DOMAIN message_buffer
                        THEN message_buffer[t] ELSE <<>>
             IN /\ cm_ret' = Ret("send", t, "False")
                /\ t \in DOMAIN message_buffer'
                /\ Len(old) < BUFFER_LIMIT =>
                      message_buffer'[t] = Append(old, next_msg)
                /\ \A u \in DOMAIN message_buffer \ {t} :
                      u \in DOMAIN message_buffer'
                         /\ message_buffer'[u] = message_buffer[u]
                /\ UNCHANGED <<wire, cm_active_connections, ws_closed>>
                /\ close_log' = {}]_vars

\* two messages in a row were buffered for a terminal whose connection is
\* RECONNECTING
C16_Witness ==
    /\ cm_ret = Ret("send", Recipient, "False")
    /\ Recipient \in DOMAIN cm_active_connections
    /\ cm_active_connections[Recipient].state = RECONNECTING
    /\ Len(message_buffer[Recipient]) >= 2
    /\ message_buffer[Recipient][Len(message_buffer[Recipient])] = next_msg - 1

\* C14: a disconnect of a terminal that the preceding disconnect call left
\* DISCONNECTED returns without error, leaves the state DISCONNECTED and
\* calls close on no transport on which close has returned before.
C14_DisconnectIdempotent ==
    [][\A t \in Terminals :
          (/\ cm_ret = Ret("disconnect", t, "ok")
           /\ t \in DOMAIN cm_active_connections
           /\ cm_active_connections[t].state = DISCONNECTED
           /\ Disconnect(t)) =>
             /\ cm_ret' = Ret("disconnect", t, "ok")
             /\ cm_active_connections'[t].state = DISCONNECTED
             /\ \A call \in close_log' : ~call.again]_vars

\* C15: a call that runs _handle_connection_error on a terminal with a
\* ConnectionInfo (a connect whose accept fails, a send_message whose
\* send_json fails) raises retry_count by exactly 1; if the new count is over
\* MAX_RETRY_ATTEMPTS the connection ends DISCONNECTED with its transport
\* closed (close was called on it, or its client_state was DISCONNECTED),
\* otherwise it ends RECONNECTING and is still in active_connections.
C15_ErrorHandlerOutcome ==
    [][\A t \in Terminals :
          (/\ t \in DOMAIN cm_active_connections
           /\ \/ Connect(t, "Exception")
              \/ /\ cm_active_connections[t].state = CONNECTED
                 /\ \E retry \in BOOLEAN : CmSendMessage(t, retry, "Exception")) =>
             LET c == cm_active_connections[t]
             IN /\ t \in DOMAIN cm_active_connections'
                /\ cm_active_connections'[t].retry_count = c.retry_count + 1
                /\ IF c.retry_count + 1 > CM_MAX_RETRY_ATTEMPTS
                   THEN /\ cm_active_connections'[t].state = DISCONNECTED
                        /\ \/ c.websocket \in ws_closed
                           \/ \E call \in close_log' : call.ws = c.websocket
                   ELSE cm_active_connections'[t].state = RECONNECTING]_vars

\* C17: a terminal leaves active_connections only in a step in which its
\* state was DISCONNECTED and more than RECONNECT_TIMEOUT seconds had passed
\* since the last_heartbeat recorded at its disconnect, and its buffer goes
\* with it; a buffer of a terminal with a ConnectionInfo is dropped in no
\* other step.
C17_RemovedOnlyAfterGrace ==
    [][\A t \in Terminals :
          /\ (t \in DOMAIN cm_active_connections
               /\ t \notin DOMAIN cm_active_connections') =>
                /\ cm_active_connections[t].state = DISCONNECTED
                /\ cm_now - cm_active_connections[t].last_heartbeat
                      > RECONNECT_TIMEOUT
                /\ t \notin DOMAIN message_buffer'
          /\ (t \in DOMAIN cm_active_connections
               /\ t \in DOMAIN message_buffer
               /\ t \notin DOMAIN message_buffer') =>
                t \notin DOMAIN cm_active_connections']_vars

\* the sweep has just removed a connection, RECONNECT_TIMEOUT +
\* HEARTBEAT_INTERVAL seconds after its disconnect, with a buffered message
C17_Witness ==
    /\ cm_now = RECONNECT_TIMEOUT + HEARTBEAT_INTERVAL
    /\ next_ws = 2
    /\ next_msg = 2
    /\ wire[Recipient] = <<>>
    /\ Recipient \notin DOMAIN cm_active_connections
    /\ Recipient \notin DOMAIN message_buffer

\* t's ConnectionInfo is DISCONNECTED with the disconnect time h.
DisconnectedAt(t, h) ==
    /\ t \in DOMAIN cm_active_connections
    /\ cm_active_connections[t].state = DISCONNECTED
    /\ cm_active_connections[t].last_heartbeat = h

\* t has no ConnectionInfo, no buffer and is in no terminal pair.
Forgotten(t) ==
    /\ t \notin DOMAIN cm_active_connections
    /\ t \notin DOMAIN message_buffer
    /\ \A p \in DOMAIN terminal_pairs : t \notin terminal_pairs[p]

\* A caller has replaced or changed the ConnectionInfo t had when it was
\* disconnected at time h.
Touched(t, h) ==
    t \in DOMAIN cm_active_connections /\ ~DisconnectedAt(t, h)

\* The disconnect times after which the clock of the model can still pass
\* the reconnect timeout.
SweepableTimes ==
    {h \in 0..MaxCmTime :
        /\ h % HEARTBEAT_INTERVAL = 0
        /\ h + RECONNECT_TIMEOUT + HEARTBEAT_INTERVAL <= MaxCmTime}

HeldFor(t) ==
    IF t \in DOMAIN message_queues THEN QueueIds(message_queues[t]) ELSE {}

\* C21: unregister_terminal with cleanup on a registered terminal discards no
\* queued envelope: the envelopes held for the terminal are the same before
\* and after the call.
C21_UnregisterKeepsQueued ==
    [][\A t \in Terminals :
          (t \in DOMAIN terminals /\ UnregisterTerminal(t, TRUE)) =>
             HeldFor(t)' = HeldFor(t)]_vars

\* C22: when cleanup() has run, on either class, it has returned without an
\* error, the background tasks are cancelled and nothing is left: the
\* MessagingService has no terminal, queue, worker, tracking record or active
\* connection; the ConnectionManager has no connection, pair or buffer, and
\* every transport it held was closed (by this call, by an earlier close or
\* by the peer).
C22_ShutdownClearsAll ==
    [][/\ CleanupMS =>
             /\ ms_ret' = Ret("cleanup", "all", "ok")
             /\ ms_tasks' = "cancelled"
             /\ terminals' = <<>>
             /\ message_queues' = <<>>
             /\ processing_tasks' = <<>>
             /\ message_states' = <<>>
             /\ active_connections' = {}
       /\ CleanupCM =>
             /\ cm_ret' = Ret("cleanup", "all", "ok")
             /\ cm_tasks' = "cancelled"
             /\ cm_active_connections' = <<>>
             /\ terminal_pairs' = <<>>
             /\ message_buffer' = <<>>
             /\ \A t \in DOMAIN cm_active_connections :
                   LET c == cm_active_connections[t]
                   IN \/ c.websocket \in ws_closed \cup close_sent
                      \/ \E call \in close_log' : call.ws = c.websocket]_vars

\* C23: broadcast returns without an error and, whatever send_json does for
\* the other terminals, each terminal outside exclude whose connection is
\* CONNECTED shows the effect of exactly one send attempt (one more message
\* on its transport, or DISCONNECTED after WebSocketDisconnect, or one more
\* retry after another exception), while an excluded terminal, and one that
\* is not CONNECTED, keeps its transport and its ConnectionInfo untouched;
\* nothing is buffered.
C23_BroadcastIsolatesFailures ==
    [][\A exclude \in SUBSET Terminals, outs \in [Terminals -> TransportOutcomes] :
          Broadcast(exclude, outs) =>
             /\ cm_ret' = Ret("broadcast", exclude, "ok")
             /\ DOMAIN cm_active_connections' = DOMAIN cm_active_connections
             /\ message_buffer' = message_buffer
             /\ \A t \in DOMAIN cm_active_connections :
                   LET c == cm_active_connections[t]
                       d == cm_active_connections'[t]
                   IN IF t \in exclude \/ c.state # CONNECTED
                      THEN d = c /\ wire'[t] = wire[t]
                      ELSE IF outs[t] = "ok"
                      THEN d = c /\ wire'[t] = Append(wire[t], next_msg)
                      ELSE IF outs[t] = "WebSocketDisconnect"
                      THEN d.state = DISCONNECTED /\ wire'[t] = wire[t]
                      ELSE /\ d.retry_count = c.retry_count + 1
                           /\ wire'[t] = wire[t]]_vars

\* a broadcast that excluded nobody wrote its message to t2 although the
\* send to t1 failed
C23_Witness ==
    /\ cm_ret = Ret("broadcast", {}, "ok")
    /\ DOMAIN cm_active_connections = Terminals
    /\ cm_active_connections["t1"].state = RECONNECTING
    /\ wire["t1"] = <<>>
    /\ wire["t2"] = <<next_msg - 1>>

\* The sends of sender s that send_message accepted (their put completed and
\* the call returned the message id) within the last RATE_LIMIT_WINDOW
\* seconds.
AcceptedInWindow(s) ==
    {i \in DOMAIN messages :
        /\ messages[i].sender_id = s
        /\ arrival[i] > 0
        /\ i \in DOMAIN message_states
        /\ ms_now - message_states[i].created_at < RATE_LIMIT_WINDOW}

\* C24: a send_message call of a sender who has had
\* MAX_MESSAGES_PER_WINDOW sends accepted within the window fails with
\* RateLimitExceeded: it creates no tracking record and no envelope and
\* enqueues nothing.
C24_SendRateLimited ==
    [][\A s \in Senders, r \in Terminals, c \in Contents, p \in Priorities,
          to \in TimeoutArgs :
          (/\ Cardinality(AcceptedInWindow(s)) >= MAX_MESSAGES_PER_WINDOW
           /\ SendMessage(s, r, c, p, to)) =>
             /\ ms_ret' = Ret("send", r, "RateLimitExceeded")
             /\ UNCHANGED <<message_states, messages, putters, message_queues,
                            next_id>>]_vars

\* C25: whatever the interleaving of a sender's add_message calls, the
\* operations recorded as accepted for the sender within one window (the
\* timestamps of rate_limits that _check_rate_limit would keep) never exceed
\* MAX_MESSAGES_PER_WINDOW.
C25_ConcurrentLimitHolds ==
    \A s \in RlSenders :
        s \in DOMAIN rate_limits =>
            Len(InWindow(rate_limits[s])) <= MAX_MESSAGES_PER_WINDOW

\* C26: a worker that sleeps before it re-offers a message sleeps 2^n
\* seconds, n being the number of failed attempts made for that message so
\* far, its earlier re-offers counted (2 s after the first failure, 4 s after
\* the second).
C26_BackoffGrows ==
    \A t \in DOMAIN processing_tasks :
        LET w == processing_tasks[t]
        IN (w.pc = "backoff" /\ BackoffEnvelope(w) \in DOMAIN message_states) =>
              BackoffDelay(w) =
                 2 ^ SumAttempts(Lineage(messages[BackoffEnvelope(w)].root))

\* The envelopes that carry the first message sent: the envelope of the send
\* and its re-offers, with the content and the sender of the send.
Copies ==
    {id \in DOMAIN messages :
        /\ messages[id].root = 1
        /\ messages[id].content = messages[1].content
        /\ messages[id].sender_id = messages[1].sender_id}

\* get_messages has yielded the message to the consumer.
Yielded ==
    \E id \in Copies :
        id \in DOMAIN message_states /\ message_states[id].state = DELIVERED

\* The message is on its way: a put of it is pending, it is in the consumer's
\* queue, or the consumer's worker holds it and has its re-offer to make.
OnItsWay ==
    \/ Copies \cap putters # {}
    \/ /\ Consumer \in DOMAIN message_queues
       /\ Copies \cap QueueIds(message_queues[Consumer]) # {}
    \/ /\ Consumer \in DOMAIN processing_tasks
       /\ processing_tasks[Consumer].pc \in {"backoff", "put"}
       /\ BackoffEnvelope(processing_tasks[Consumer]) \in Copies

\* The model allocates LifeIds envelopes: the chain of re-offers is cut when
\* the worker holds the last of them and has no identifier for its re-offer.
ChainCut ==
    /\ next_id > LifeIds
    /\ Consumer \in DOMAIN processing_tasks
    /\ processing_tasks[Consumer].pc = "backoff"
    /\ BackoffEnvelope(processing_tasks[Consumer]) \in Copies

\* C27: once both terminals are registered and a message is sent to the
\* second, the message is never lost (until get_messages yields it, it is on
\* its way to the consumer's queue or in it, whatever the worker does), and
\* get_messages eventually yields it with its content and sender_id, unless
\* the worker took every envelope the model allocates (ChainCut).
C27_ConsumerGetsMessage ==
    /\ [](1 \in DOMAIN messages => (Yielded \/ OnItsWay))
    /\ (1 \in DOMAIN messages) ~> (Yielded \/ ChainCut)

\* the consumer was yielded a re-offer of the message: the worker had taken
\* the envelope of the send first
C27_Witness ==
    /\ 2 \in DOMAIN message_states
    /\ message_states[2].state = DELIVERED
    /\ message_states[1].state = PENDING
    /\ message_states[1].attempts = 1
    /\ 2 \in Copies
    /\ ms_ret = Ret("get", Consumer, "ok")

\* The tracking record of envelope id is written in this step: its state or
\* its attempts change.
RecordWritten(id) ==
    /\ id \in DOMAIN message_states
    /\ id \in DOMAIN message_states'
    /\ \/ message_states'[id].state # message_states[id].state
       \/ message_states'[id].attempts # message_states[id].attempts

\* The step is one of the delivery worker of terminal t.
WorkerStep(t) ==
    /\ t \in DOMAIN processing_tasks
    /\ t \in DOMAIN processing_tasks'
    /\ processing_tasks'[t] # processing_tasks[t]

\* C28: the state and the attempts of a tracked envelope are written only by
\* a step of the delivery worker of the envelope's recipient.
C28_SingleWriter ==
    [][\A id \in Ids :
          RecordWritten(id) => WorkerStep(messages[id].recipient_id)]_vars

\* The delivery worker of the envelope's recipient takes envelope id out of
\* the queue in this step.
DrainedByWorker(id) ==
    LET r == messages[id].recipient_id
    IN /\ r \in DOMAIN message_queues
       /\ r \in DOMAIN message_queues'
       /\ id \in QueueIds(message_queues[r])
       /\ id \notin QueueIds(message_queues'[r])
       /\ WorkerStep(r)

\* C29: when the worker drains an envelope whose age exceeds its timeout, the
\* envelope's state becomes Expired, its attempts counter is not incremented
\* and the worker does not go on to re-offer it.
C29_ExpiredStopsAtDrain ==
    [][\A id \in DOMAIN message_states :
          (DrainedByWorker(id) /\ IsMessageExpired(message_states[id])) =>
              /\ message_states'[id].state = EXPIRED
              /\ message_states'[id].attempts = message_states[id].attempts
              /\ ~ LET w == processing_tasks'[messages[id].recipient_id]
                   IN w.pc = "backoff" /\ BackoffEnvelope(w) = id]_vars

\* Envelope id is tracked and has reached a terminal state.
TerminalState(id) ==
    /\ id \in DOMAIN message_states
    /\ message_states[id].state \in {DELIVERED, FAILED, EXPIRED}

\* C30: in normal operation (no shutdown of the service) the tracking record
\* of an envelope that has reached Delivered, Failed or Expired is eventually
\* removed from message_states.
C30_TerminalRecordsRemoved ==
    \A id \in 1..TimedIds :
        TerminalState(id) ~> (id \notin DOMAIN message_states)

\* The worker has handled envelope id: its failure was counted, or it was
\* delivered, or it is no longer tracked.
HandledByWorker(st, id) ==
    \/ id \notin DOMAIN st
    \/ st[id].attempts >= 1
    \/ st[id].state = DELIVERED

\* C35: when the worker leaves a batch and goes back to polling, it has
\* handled every envelope of the batch, also when the re-offer of one of them
\* raised.
C35_BatchFullyHandled ==
    [][\A t \in DOMAIN processing_tasks :
          (/\ processing_tasks[t].pc \in {"backoff", "put"}
           /\ t \in DOMAIN processing_tasks'
           /\ processing_tasks'[t].pc = "poll") =>
              \A i \in 1..Len(processing_tasks[t].batch) :
                  HandledByWorker(message_states',
                                  processing_tasks[t].batch[i])]_vars

\* C36: between register_terminal and unregister_terminal calls, returned or
\* raised, terminals, message_queues, processing_tasks and active_connections
\* hold the same terminal ids.
C36_RegistrationAllOrNothing ==
    /\ DOMAIN message_queues = DOMAIN terminals
    /\ DOMAIN processing_tasks = DOMAIN terminals
    /\ active_connections = DOMAIN terminals

\* C37: a connection's retry_count never exceeds MAX_RETRY_ATTEMPTS + 1, and
\* a connection whose retry_count exceeds MAX_RETRY_ATTEMPTS is Disconnected.
C37_RetryCountBounded ==
    \A t \in DOMAIN cm_active_connections :
        LET c == cm_active_connections[t]
        IN /\ c.retry_count <= CM_MAX_RETRY_ATTEMPTS + 1
           /\ c.retry_count > CM_MAX_RETRY_ATTEMPTS => c.state = DISCONNECTED

\* C38: at most one _connection_heartbeat task runs for a terminal id.
C38_OneHeartbeatTask ==
    \A t \in Terminals : heartbeat_tasks[t] <= 1

\* The model's clock moves in steps of MESSAGE_TIMEOUT and stops at its last
\* step within MaxTime: an envelope created too late for its age to pass its
\* timeout by then is outside what the model can follow.
LastTick == (MaxTime \div MESSAGE_TIMEOUT) * MESSAGE_TIMEOUT

BeyondClock(id) ==
    LastTick - message_states[id].created_at <= message_states[id].timeout

\* Envelope id is tracked and its state is no longer Pending.
LeftPending(id) ==
    id \in DOMAIN message_states /\ message_states[id].state # PENDING

\* C39: with the clock advancing and the worker and the expiry sweep
\* scheduled fairly, every envelope send_message has accepted eventually
\* leaves state Pending (Delivered, Failed or Expired).
C39_PendingEventuallyLeft ==
    \A id \in 1..ExpireIds :
        (id \in DOMAIN message_states /\ ~BeyondClock(id))
            ~> LeftPending(id)

\* the sweep has marked an envelope Expired that the worker had drained and
\* re-offered
C39_Witness ==
    /\ 1 \in DOMAIN message_states
    /\ message_states[1].state = EXPIRED
    /\ message_states[1].attempts = 1
    /\ ms_swept = ms_now

\* add_message may accept: the conversation exists, is active and below its
\* message limit, and the sender is one of its two terminals.
Acceptable(cid, s) ==
    /\ cid \in DOMAIN cv_active_conversations
    /\ cv_active_conversations[cid].status = CONV_ACTIVE
    /\ Len(cv_active_conversations[cid].messages) < MESSAGE_LIMIT
    /\ s \in {cv_active_conversations[cid].terminal1_id,
              cv_active_conversations[cid].terminal2_id}

\* C32: add_message on an active conversation below its limit, from one of
\* its two terminals, appends one message, updates last_activity and returns
\* normally.
C32_AddMessageAppends ==
    [][\A cid \in ConvIds, s \in Terminals :
          (Acceptable(cid, s) /\ AddMessage(cid, s)) =>
              /\ Len(cv_active_conversations'[cid].messages) =
                    Len(cv_active_conversations[cid].messages) + 1
              /\ cv_active_conversations'[cid].last_activity = cv_now
              /\ cv_ret'.err = "ok"]_vars

\* C33: active_conversations and conversation_pairs have the same keys, every
\* conversation in active_conversations is active, and every id in a
\* terminal_conversations set is a key of active_conversations.
C33_ManagerMapsAgree ==
    /\ DOMAIN cv_active_conversations = DOMAIN conversation_pairs
    /\ \A cid \in DOMAIN cv_active_conversations :
          cv_active_conversations[cid].status = CONV_ACTIVE
    /\ \A t \in DOMAIN terminal_conversations :
          terminal_conversations[t] \subseteq DOMAIN cv_active_conversations

\* C31: when the generation of a response times out, or fails after its
\* MAX_RETRIES attempts, receive_message returns normally to the call that
\* delivered the message and sends no response: no terminal's history grows.
C31_GenerationFailureContained ==
    [][at_gen' \in {"TimeoutError", "Exception"} =>
          /\ at_ret'.err = "ok"
          /\ conversation_history' = conversation_history
          /\ \A t \in Terminals :
                at_pending[t] # NoPending =>
                    at_pending'[t] \in {NoPending, at_pending[t]}]_vars

\* a generation has failed for the third time in a terminal that had a
\* message to answer, and the delivering call has returned
C31_Witness ==
    /\ at_gen = "Exception"
    /\ at_ret = Ret("receive", "t1", "ok")
    /\ at_status["t1"] = T_ERROR
    /\ at_pending["t1"] = NoPending
    /\ conversation_history["t1"] >= 2

\* start_conversation of terminal t raised RuntimeError in this step.
StartRefused(t) ==
    /\ at_status[t] # T_IDLE
    /\ \E o \in Terminals : StartConversation(t, o)

\* C34: a terminal's status is idle exactly when its active_conversations is
\* empty, an idle terminal has no current_conversation_id, and
\* start_conversation on a terminal that is not idle raises RuntimeError and
\* changes nothing.
C34_StatusMatchesConversations ==
    [][\A t \in Terminals :
          /\ (at_status'[t] = T_IDLE) <=> (at_active_conversations'[t] = {})
          /\ at_status'[t] = T_IDLE =>
                current_conversation_id'[t] = NoConversation
          /\ StartRefused(t) =>
                /\ at_ret' = Ret("start", t, "RuntimeError")
                /\ UNCHANGED <<at_status, current_conversation_id,
                               at_active_conversations, conversation_history,
                               registry, at_pending>>]_vars

\* A start_conversation call of terminal t has not returned.
StartSuspended(t) ==
    \E u \in Terminals :
        at_pending[u].call = "start" /\ at_pending[u].caller = t

\* C40: every start_conversation call returns: the chain of send_message,
\* receive_message and generate_response calls it triggers comes to an end.
C40_StartReturns ==
    StartSuspended(Recipient) ~> ~StartSuspended(Recipient)

====
